---- MODULE Spec2Model ----
(***************************************************************************)
(* Parse-tree visualizer core: lexer (parser/lexer.go), grammar compiler   *)
(* (parser/grammar.go), backtracking recursive-descent engine              *)
(* (parser/parser.go) and the application bindings (app.go).               *)
(*                                                                         *)
(* Text is modelled character by character: a string of the program is a   *)
(* sequence of one-character strings, and Str turns such a sequence into   *)
(* the string value the program stores in a token, a symbol or a message.  *)
(***************************************************************************)
EXTENDS Integers, Sequences, FiniteSets, TLC

\* ------------------------------------------------------------------ text

RECURSIVE Str(_)
Str(cs) == IF cs = <<>> THEN "" ELSE Head(cs) \o Str(Tail(cs))

Digits == {"0", "1", "2", "3", "4", "5", "6", "7", "8", "9"}

LowerLetters ==
    {"a", "b", "c", "d", "e", "f", "g", "h", "i", "j", "k", "l", "m",
     "n", "o", "p", "q", "r", "s", "t", "u", "v", "w", "x", "y", "z"}

UpperLetters ==
    {"A", "B", "C", "D", "E", "F", "G", "H", "I", "J", "K", "L", "M",
     "N", "O", "P", "Q", "R", "S", "T", "U", "V", "W", "X", "Y", "Z"}

\* unicode.IsSpace on the characters a text can hold here
IsSpace(c) == c \in {" ", "\t", "\n", "\r", "\f"}

IsDigit(c) == c \in Digits

\* a byte above 0x7F is named by the character of that code, which is the
\* rune that rune(ch) makes of it. The letter among the bytes a text holds
\* here: 0xC2, the first byte of the UTF-8 form of the character § (0xC2
\* 0xA7), which unicode.IsLetter takes for the letter Â
HighLetterBytes == {"Â"}

\* unicode.IsLetter(rune(ch)) on one byte
IsLetter(c) == c \in LowerLetters \cup UpperLetters \cup HighLetterBytes

UpperSeq ==
    <<"A", "B", "C", "D", "E", "F", "G", "H", "I", "J", "K", "L", "M",
      "N", "O", "P", "Q", "R", "S", "T", "U", "V", "W", "X", "Y", "Z">>

LowerSeq ==
    <<"a", "b", "c", "d", "e", "f", "g", "h", "i", "j", "k", "l", "m",
      "n", "o", "p", "q", "r", "s", "t", "u", "v", "w", "x", "y", "z">>

\* strings.ToLower on one character
ToLower(c) ==
    IF c \in UpperLetters
    THEN LowerSeq[CHOOSE k \in 1..Len(UpperSeq) : UpperSeq[k] = c]
    ELSE c

LowerAll(cs) == [k \in 1..Len(cs) |-> ToLower(cs[k])]

\* s[from:to] of Go, offsets counted from 0
Slice(cs, from, to) == SubSeq(cs, from + 1, to)

\* ----------------------------------------------------------------- lexer

TOKEN_NUMBER == "NUMBER"
TOKEN_PLUS == "PLUS"
TOKEN_MINUS == "MINUS"
TOKEN_MULT == "MULT"
TOKEN_DIV == "DIV"
TOKEN_LPAREN == "LPAREN"
TOKEN_RPAREN == "RPAREN"
TOKEN_EOF == "EOF"
TOKEN_IDENT == "IDENT"
TOKEN_UNKNOWN == "UNKNOWN"

Token(type, value, position) ==
    [Type |-> type, Value |-> value, Position |-> position]

\* Lexer.readNumber: the offset just after the number that starts at pos
RECURSIVE NumberEnd(_, _, _)
NumberEnd(input, pos, hasDecimal) ==
    IF pos >= Len(input) THEN pos
    ELSE LET ch == input[pos + 1] IN
         IF IsDigit(ch) THEN NumberEnd(input, pos + 1, hasDecimal)
         ELSE IF ch = "." /\ ~hasDecimal THEN NumberEnd(input, pos + 1, TRUE)
         ELSE pos

readNumber(input, start) ==
    LET end == NumberEnd(input, start, FALSE) IN
    [tok |-> Token(TOKEN_NUMBER, Str(Slice(input, start, end)), start),
     pos |-> end]

\* Lexer.readIdentifier: the offset just after the identifier at pos
RECURSIVE IdentEnd(_, _)
IdentEnd(input, pos) ==
    IF pos >= Len(input) THEN pos
    ELSE LET ch == input[pos + 1] IN
         IF IsLetter(ch) \/ IsDigit(ch) \/ ch = "_" \/ ch = "'"
         THEN IdentEnd(input, pos + 1)
         ELSE pos

readIdentifier(input, start) ==
    LET end == IdentEnd(input, start)
        value == Slice(input, start, end)
        tokenType == IF Str(LowerAll(value)) = "number"
                     THEN TOKEN_NUMBER ELSE TOKEN_IDENT
    IN [tok |-> Token(tokenType, Str(value), start), pos |-> end]

\* the bytes 0x80 to 0xBF a text holds here: 0xA7, the second byte of the
\* UTF-8 form of the character §
ContinuationBytes == {"§"}

\* string(ch) on one byte: the UTF-8 form of the code point of that number,
\* which is the byte itself below 0x80 and the byte after the byte 0xC2 from
\* 0x80 to 0xBF
EncodeRune(ch) == IF ch \in ContinuationBytes THEN <<"Â", ch>> ELSE <<ch>>

\* SingleCharToken with an UNKNOWN token that does not hold the character
SingleCharTokenNoText(ch, pos) ==
    CASE ch = "+" -> Token(TOKEN_PLUS, "+", pos)
      [] ch = "-" -> Token(TOKEN_MINUS, "-", pos)
      [] ch = "*" -> Token(TOKEN_MULT, "*", pos)
      [] ch = "/" -> Token(TOKEN_DIV, "/", pos)
      [] ch = "(" -> Token(TOKEN_LPAREN, "(", pos)
      [] ch = ")" -> Token(TOKEN_RPAREN, ")", pos)
      [] OTHER -> Token(TOKEN_UNKNOWN, "", pos)

\* the switch of Lexer.Tokenize on a single character
SingleCharToken(ch, pos) ==
    CASE ch = "+" -> Token(TOKEN_PLUS, "+", pos)
      [] ch = "-" -> Token(TOKEN_MINUS, "-", pos)
      [] ch = "*" -> Token(TOKEN_MULT, "*", pos)
      [] ch = "/" -> Token(TOKEN_DIV, "/", pos)
      [] ch = "(" -> Token(TOKEN_LPAREN, "(", pos)
      [] ch = ")" -> Token(TOKEN_RPAREN, ")", pos)
      [] OTHER -> Token(TOKEN_UNKNOWN, Str(EncodeRune(ch)), pos)

RECURSIVE LexFrom(_, _, _)
LexFrom(input, pos, toks) ==
    IF pos >= Len(input)
    THEN Append(toks, Token(TOKEN_EOF, "", pos))
    ELSE LET ch == input[pos + 1] IN
         IF IsSpace(ch) THEN LexFrom(input, pos + 1, toks)
         ELSE IF IsDigit(ch)
              THEN LET r == readNumber(input, pos)
                   IN LexFrom(input, r.pos, Append(toks, r.tok))
         ELSE IF IsLetter(ch)
              THEN LET r == readIdentifier(input, pos)
                   IN LexFrom(input, r.pos, Append(toks, r.tok))
         ELSE LexFrom(input, pos + 1, Append(toks, SingleCharToken(ch, pos)))

Tokenize(input) == LexFrom(input, 0, <<>>)


\* ------------------------------------------------------ grammar compiler

\* strings.TrimSpace
RECURSIVE TrimLeft(_)
TrimLeft(cs) ==
    IF cs # <<>> /\ IsSpace(Head(cs)) THEN TrimLeft(Tail(cs)) ELSE cs

RECURSIVE TrimRight(_)
TrimRight(cs) ==
    IF cs # <<>> /\ IsSpace(cs[Len(cs)])
    THEN TrimRight(SubSeq(cs, 1, Len(cs) - 1))
    ELSE cs

TrimSpace(cs) == TrimRight(TrimLeft(cs))

\* strings.HasPrefix
HasPrefix(cs, prefix) ==
    Len(cs) >= Len(prefix) /\ SubSeq(cs, 1, Len(prefix)) = prefix

\* strings.Split(s, sep) for a one-character separator
RECURSIVE SplitChar(_, _, _, _)
SplitChar(cs, sep, cur, acc) ==
    IF cs = <<>> THEN Append(acc, cur)
    ELSE IF Head(cs) = sep
         THEN SplitChar(Tail(cs), sep, <<>>, Append(acc, cur))
         ELSE SplitChar(Tail(cs), sep, Append(cur, Head(cs)), acc)

Split(cs, sep) == SplitChar(cs, sep, <<>>, <<>>)

\* strings.Fields: the maximal runs of non-space characters
RECURSIVE FieldsFrom(_, _, _)
FieldsFrom(cs, cur, acc) ==
    IF cs = <<>> THEN (IF cur = <<>> THEN acc ELSE Append(acc, cur))
    ELSE IF IsSpace(Head(cs))
         THEN FieldsFrom(Tail(cs), <<>>,
                         IF cur = <<>> THEN acc ELSE Append(acc, cur))
         ELSE FieldsFrom(Tail(cs), Append(cur, Head(cs)), acc)

Fields(cs) == FieldsFrom(cs, <<>>, <<>>)

\* strings.ReplaceAll(s, old, new), old not empty
RECURSIVE ReplaceAll(_, _, _)
ReplaceAll(cs, old, new) ==
    IF cs = <<>> THEN <<>>
    ELSE IF HasPrefix(cs, old)
         THEN new \o ReplaceAll(SubSeq(cs, Len(old) + 1, Len(cs)), old, new)
         ELSE <<Head(cs)>> \o ReplaceAll(Tail(cs), old, new)

\* the regular expression \s*->|→\s* of ParseGrammar: whether it matches at
\* offset i of the line, and the offset just after the match
RegexSpace(c) == c \in {" ", "\t", "\n", "\r", "\f"}

RECURSIVE SkipSpaces(_, _)
SkipSpaces(line, i) ==
    IF i < Len(line) /\ RegexSpace(line[i + 1])
    THEN SkipSpaces(line, i + 1) ELSE i

ArrowAt(line, i) ==
    i + 2 <= Len(line) /\ line[i + 1] = "-" /\ line[i + 2] = ">"

SepMatchEnd(line, i) ==
    IF ArrowAt(line, SkipSpaces(line, i)) THEN SkipSpaces(line, i) + 2
    ELSE IF i < Len(line) /\ line[i + 1] = "→" THEN SkipSpaces(line, i + 1)
    ELSE -1

\* regexp.Split(line, 2): the text before and after the leftmost match, or
\* the whole line alone when nothing matches
SplitSeparator(line) ==
    LET starts == {i \in 0..(Len(line) - 1) : SepMatchEnd(line, i) >= 0} IN
    IF starts = {} THEN <<line>>
    ELSE LET m0 == CHOOSE i \in starts : \A j \in starts : i <= j
         IN <<Slice(line, 0, m0), Slice(line, SepMatchEnd(line, m0), Len(line))>>

\* parseSymbols
parseSymbols(body) ==
    LET b1 == ReplaceAll(body, <<"ε">>, <<" ", "ε", " ">>)
        b2 == ReplaceAll(b1, <<"e", "p", "s", "i", "l", "o", "n">>,
                         <<" ", "ε", " ">>)
        parts == Fields(b2)
    IN [k \in 1..Len(parts) |-> Str(TrimSpace(parts[k]))]

\* the loop of ParseGrammar over the alternatives of one line
RECURSIVE BodiesOf(_, _)
BodiesOf(alternatives, bodies) ==
    IF alternatives = <<>> THEN bodies
    ELSE LET alt == TrimSpace(Head(alternatives)) IN
         IF alt = <<>> THEN BodiesOf(Tail(alternatives), bodies)
         ELSE LET symbols == parseSymbols(alt) IN
              BodiesOf(Tail(alternatives),
                       IF Len(symbols) > 0 THEN Append(bodies, symbols)
                       ELSE bodies)

EmptyGrammar ==
    [Productions |-> <<>>, StartSymbol |-> "",
     Terminals |-> {}, NonTerminals |-> {}]

\* GrammarLine that makes no production entry for a head whose line has no
\* alternative
GrammarLineSkipEmpty(grammar, rawLine) ==
    LET line == TrimSpace(rawLine) IN
    IF line = <<>> \/ HasPrefix(line, <<"/", "/">>) \/ HasPrefix(line, <<"#">>)
    THEN grammar
    ELSE LET parts == SplitSeparator(line) IN
    IF Len(parts) # 2 THEN grammar
    ELSE LET head == Str(TrimSpace(parts[1])) IN
    IF head = "" THEN grammar
    ELSE LET bodies == BodiesOf(Split(parts[2], "|"), <<>>)
             prods == grammar.Productions
             existing == head \in DOMAIN prods
             heads == IF bodies = <<>> THEN {} ELSE {head}
         IN [grammar EXCEPT
               !.NonTerminals = @ \cup {head},
               !.StartSymbol = IF @ = "" THEN head ELSE @,
               !.Productions =
                   [h \in DOMAIN prods \cup heads |->
                      IF h # head THEN prods[h]
                      ELSE IF existing
                           THEN [prods[h] EXCEPT !.Body = @ \o bodies]
                           ELSE [Head |-> head, Body |-> bodies]]]

\* GrammarLine that puts the alternatives of a later line of a head before
\* those of the earlier lines
GrammarLinePrepend(grammar, rawLine) ==
    LET line == TrimSpace(rawLine) IN
    IF line = <<>> \/ HasPrefix(line, <<"/", "/">>) \/ HasPrefix(line, <<"#">>)
    THEN grammar
    ELSE LET parts == SplitSeparator(line) IN
    IF Len(parts) # 2 THEN grammar
    ELSE LET head == Str(TrimSpace(parts[1])) IN
    IF head = "" THEN grammar
    ELSE LET bodies == BodiesOf(Split(parts[2], "|"), <<>>)
             prods == grammar.Productions
             existing == head \in DOMAIN prods
         IN [grammar EXCEPT
               !.NonTerminals = @ \cup {head},
               !.StartSymbol = IF @ = "" THEN head ELSE @,
               !.Productions =
                   [h \in DOMAIN prods \cup {head} |->
                      IF h # head THEN prods[h]
                      ELSE IF existing
                           THEN [prods[h] EXCEPT !.Body = bodies \o @]
                           ELSE [Head |-> head, Body |-> bodies]]]

\* one iteration of the loop of ParseGrammar over the lines
GrammarLine(grammar, rawLine) ==
    LET line == TrimSpace(rawLine) IN
    IF line = <<>> \/ HasPrefix(line, <<"/", "/">>) \/ HasPrefix(line, <<"#">>)
    THEN grammar
    ELSE LET parts == SplitSeparator(line) IN
    IF Len(parts) # 2 THEN grammar
    ELSE LET head == Str(TrimSpace(parts[1])) IN
    IF head = "" THEN grammar
    ELSE LET bodies == BodiesOf(Split(parts[2], "|"), <<>>)
             prods == grammar.Productions
             existing == head \in DOMAIN prods
         IN [grammar EXCEPT
               !.NonTerminals = @ \cup {head},
               !.StartSymbol = IF @ = "" THEN head ELSE @,
               !.Productions =
                   [h \in DOMAIN prods \cup {head} |->
                      IF h # head THEN prods[h]
                      ELSE IF existing
                           THEN [prods[h] EXCEPT !.Body = @ \o bodies]
                           ELSE [Head |-> head, Body |-> bodies]]]

RECURSIVE GrammarLines(_, _)
GrammarLines(grammar, lines) ==
    IF lines = <<>> THEN grammar
    ELSE GrammarLines(GrammarLine(grammar, Head(lines)), Tail(lines))

Range(seq) == {seq[k] : k \in 1..Len(seq)}

\* the symbols of all production bodies
BodySymbols(grammar) ==
    UNION {UNION {Range(alt) : alt \in Range(grammar.Productions[h].Body)} :
             h \in DOMAIN grammar.Productions}

ParseGrammar(text) ==
    LET g == GrammarLines(EmptyGrammar, Split(text, "\n")) IN
    [g EXCEPT !.Terminals =
        {s \in BodySymbols(g) :
            s \notin g.NonTerminals /\ s # "ε" /\ s # "epsilon"}]


\* the orders in which a range over a Go map can visit the keys in S
Perms(S) ==
    {f \in [1..Cardinality(S) -> S] :
        \A i, j \in 1..Cardinality(S) : f[i] = f[j] => i = j}

\* concatenation of the sequences of a sequence, in order
RECURSIVE Flatten(_)
Flatten(seqs) ==
    IF seqs = <<>> THEN <<>> ELSE Head(seqs) \o Flatten(Tail(seqs))

\* strings.Join
RECURSIVE Join(_, _)
Join(strs, sep) ==
    IF strs = <<>> THEN ""
    ELSE IF Len(strs) = 1 THEN strs[1]
    ELSE strs[1] \o sep \o Join(Tail(strs), sep)

\* ValidateGrammar, first loop, for one production: an error for every body
\* symbol that is a non-terminal without an entry in Productions
UndefinedErrors(grammar, head) ==
    LET perAlt(alt) ==
            Flatten([k \in 1..Len(alt) |->
                IF alt[k] \in grammar.NonTerminals
                   /\ alt[k] \notin DOMAIN grammar.Productions
                THEN <<"Undefined non-terminal: " \o alt[k]>> ELSE <<>>])
        body == grammar.Productions[head].Body
    IN Flatten([a \in 1..Len(body) |-> perAlt(body[a])])

\* ValidateGrammar, second loop, for one production: a warning for every
\* alternative that starts with the head
RecursionWarnings(grammar, head) ==
    LET body == grammar.Productions[head].Body IN
    Flatten([a \in 1..Len(body) |->
        IF Len(body[a]) > 0 /\ body[a][1] = head
        THEN <<"Potential left recursion in production: " \o head
                 \o " -> " \o Join(body[a], " ")>>
        ELSE <<>>])

\* the heads whose visit adds an error, and those whose visit adds a warning
ErrorHeads(grammar) ==
    {h \in DOMAIN grammar.Productions : UndefinedErrors(grammar, h) # <<>>}

WarningHeads(grammar) ==
    {h \in DOMAIN grammar.Productions : RecursionWarnings(grammar, h) # <<>>}

\* ValidateGrammar with warnings that count against validity
ValidateGrammarStrict(grammar, errOrder, warnOrder) ==
    IF grammar.StartSymbol = ""
    THEN [Valid |-> FALSE, Errors |-> <<"No start symbol defined">>,
          Warnings |-> <<>>]
    ELSE IF grammar.StartSymbol \notin DOMAIN grammar.Productions
    THEN [Valid |-> FALSE, Errors |-> <<"Start symbol has no productions">>,
          Warnings |-> <<>>]
    ELSE LET errors == Flatten([k \in 1..Len(errOrder) |->
                          UndefinedErrors(grammar, errOrder[k])])
             warnings == Flatten([k \in 1..Len(warnOrder) |->
                          RecursionWarnings(grammar, warnOrder[k])])
         IN [Valid |-> errors = <<>> /\ warnings = <<>>, Errors |-> errors,
             Warnings |-> warnings]

\* ValidateGrammar. Both loops range over the map Productions, whose
\* iteration order Go leaves open: errOrder and warnOrder are the orders in
\* which the two loops meet the heads that contribute a message.
ValidateGrammar(grammar, errOrder, warnOrder) ==
    IF grammar.StartSymbol = ""
    THEN [Valid |-> FALSE, Errors |-> <<"No start symbol defined">>,
          Warnings |-> <<>>]
    ELSE IF grammar.StartSymbol \notin DOMAIN grammar.Productions
    THEN [Valid |-> FALSE, Errors |-> <<"Start symbol has no productions">>,
          Warnings |-> <<>>]
    ELSE LET errors == Flatten([k \in 1..Len(errOrder) |->
                          UndefinedErrors(grammar, errOrder[k])])
             warnings == Flatten([k \in 1..Len(warnOrder) |->
                          RecursionWarnings(grammar, warnOrder[k])])
         IN [Valid |-> errors = <<>>, Errors |-> errors,
             Warnings |-> warnings]

\* ---------------------------------------------------------- parser engine

\* TreeNode; a *TreeNode is a sequence holding no node (nil) or one node
TreeNode(id, label, isTerminal) ==
    [ID |-> id, Label |-> label, Children |-> <<>>, IsTerminal |-> isTerminal]

\* Step (its Tree field is never set and is left out)
Step(description, nodeID, parentID) ==
    [Action |-> "add", Description |-> description,
     NodeID |-> nodeID, ParentID |-> parentID]

\* NewParser: a Parser that has not parsed yet. stack holds the active calls
\* of parseNonTerminal, innermost last; ret holds what the call for the start
\* symbol returned.
NoReturn == [kind |-> "none", tree |-> <<>>, err |-> ""]

NewParser ==
    [tokens |-> <<>>, pos |-> 0, nodeID |-> 0, steps |-> <<>>,
     recordSteps |-> FALSE, stack |-> <<>>, ret |-> NoReturn]

\* Parser.current
current(p) ==
    IF p.pos >= Len(p.tokens) THEN Token(TOKEN_EOF, "", p.pos)
    ELSE p.tokens[p.pos + 1]

\* Parser.advance
advance(p) ==
    IF p.pos < Len(p.tokens) THEN [p EXCEPT !.pos = @ + 1] ELSE p

\* Parser.buildStepDescription
buildStepDescription(label, isTerminal) ==
    IF isTerminal
    THEN IF label = "ε" THEN "Match epsilon (empty string)"
         ELSE "Match terminal '" \o label \o "'"
    ELSE "Expand non-terminal <" \o label \o ">"

\* createNode with the step built before the counter is incremented
createNodeStaleId(p, label, isTerminal, parentID) ==
    [p EXCEPT
       !.nodeID = @ + 1,
       !.steps = IF p.recordSteps
                 THEN Append(@, Step(buildStepDescription(label, isTerminal),
                                     p.nodeID, parentID))
                 ELSE @]

\* createNode with a counter that only counts the nodes it records
createNodeCountRecorded(p, label, isTerminal, parentID) ==
    [p EXCEPT
       !.nodeID = IF p.recordSteps THEN @ + 1 ELSE @,
       !.steps = IF p.recordSteps
                 THEN Append(@, Step(buildStepDescription(label, isTerminal),
                                     p.nodeID + 1, parentID))
                 ELSE @]

\* Parser.createNode: the Parser after the call; the node it returns is
\* TreeNode(p.nodeID + 1, label, isTerminal)
createNode(p, label, isTerminal, parentID) ==
    [p EXCEPT
       !.nodeID = @ + 1,
       !.steps = IF p.recordSteps
                 THEN Append(@, Step(buildStepDescription(label, isTerminal),
                                     p.nodeID + 1, parentID))
                 ELSE @]

\* Parser.isTerminal
BuiltinTerminals == {"number", "+", "-", "*", "/", "(", ")", "ε", "epsilon"}

isTerminal(grammar, symbol) ==
    symbol \in grammar.Terminals \/ symbol \in BuiltinTerminals

\* Matched with the symbol * matching the token of /
MatchedMultAsDiv(symbol, token) ==
    CASE symbol = "number" -> token.Type = TOKEN_NUMBER
      [] symbol = "+" -> token.Type = TOKEN_PLUS
      [] symbol = "-" -> token.Type = TOKEN_MINUS
      [] symbol = "*" -> token.Type = TOKEN_DIV
      [] symbol = "/" -> token.Type = TOKEN_DIV
      [] symbol = "(" -> token.Type = TOKEN_LPAREN
      [] symbol = ")" -> token.Type = TOKEN_RPAREN
      [] OTHER -> token.Value = symbol

\* Matched that takes the EOF token for a match of any symbol as well
MatchedAlsoEof(symbol, token) ==
    \/ token.Type = TOKEN_EOF
    \/ CASE symbol = "number" -> token.Type = TOKEN_NUMBER
         [] symbol = "+" -> token.Type = TOKEN_PLUS
         [] symbol = "-" -> token.Type = TOKEN_MINUS
         [] symbol = "*" -> token.Type = TOKEN_MULT
         [] symbol = "/" -> token.Type = TOKEN_DIV
         [] symbol = "(" -> token.Type = TOKEN_LPAREN
         [] symbol = ")" -> token.Type = TOKEN_RPAREN
         [] OTHER -> token.Value = symbol

\* the switch of Parser.matchTerminal
Matched(symbol, token) ==
    CASE symbol = "number" -> token.Type = TOKEN_NUMBER
      [] symbol = "+" -> token.Type = TOKEN_PLUS
      [] symbol = "-" -> token.Type = TOKEN_MINUS
      [] symbol = "*" -> token.Type = TOKEN_MULT
      [] symbol = "/" -> token.Type = TOKEN_DIV
      [] symbol = "(" -> token.Type = TOKEN_LPAREN
      [] symbol = ")" -> token.Type = TOKEN_RPAREN
      [] OTHER -> token.Value = symbol

\* the error of Parser.matchTerminal on a mismatch
MismatchError(symbol, token) ==
    "expected '" \o symbol \o "', got '" \o token.Value
      \o "' at position " \o ToString(token.Position)

\* the format of the error of Parser.parseNonTerminal, line 100
NoMatchMessage(symbol, pos, found) ==
    "no matching production for " \o symbol \o " at position "
      \o ToString(pos) \o " (found '" \o found \o "')"

\* NoMatchError with the source offset of the token in place of the cursor
NoMatchErrorOffset(p, symbol) ==
    NoMatchMessage(symbol, current(p).Position, current(p).Value)

\* the error of Parser.parseNonTerminal when every alternative has failed
NoMatchError(p, symbol) == NoMatchMessage(symbol, p.pos, current(p).Value)

UndefinedError(symbol) == "undefined non-terminal: " \o symbol

\* TrailingError with the cursor in place of the token's source position
TrailingErrorCursor(p) ==
    "Unexpected token '" \o current(p).Value \o "' at position "
      \o ToString(p.pos)

\* the error of Parser.Parse when tokens are left over
TrailingError(p) ==
    "Unexpected token '" \o current(p).Value \o "' at position "
      \o ToString(current(p).Position)


\* one active call of parseNonTerminal(symbol, parentID), with the state of
\* the parseAlternative call it is waiting for: node is the node it created,
\* alt the index of the alternative of the loop, i the number of symbols of
\* that alternative already expanded, children their nodes; phase is "try"
\* at the head of the loop, "in" inside parseAlternative, "failed" once
\* parseAlternative has returned the error err
Frame(symbol, parentID, id) ==
    [symbol |-> symbol, parentID |-> parentID,
     node |-> TreeNode(id, symbol, FALSE),
     alt |-> 1, i |-> 0, savedPos |-> 0, savedStepsLen |-> 0,
     children |-> <<>>, phase |-> "try", err |-> ""]

Top(p) == p.stack[Len(p.stack)]

SetTop(p, f) == [p EXCEPT !.stack[Len(p.stack)] = f]

Pop(p) == [p EXCEPT !.stack = SubSeq(@, 1, Len(@) - 1)]

Body(grammar, f) == grammar.Productions[f.symbol].Body

\* the symbol parseAlternative is about to expand
NextSymbol(grammar, f) == Body(grammar, f)[f.alt][f.i + 1]

\* a call of parseNonTerminal returns (nil, err) to its caller: to the
\* parseAlternative of the enclosing call, which returns the error at once,
\* or to Parse
ReturnError(p, err) ==
    IF p.stack = <<>>
    THEN [p EXCEPT !.ret = [kind |-> "err", tree |-> <<>>, err |-> err]]
    ELSE SetTop(p, [Top(p) EXCEPT !.phase = "failed", !.err = err])

\* a node is handed to the parseAlternative in the top frame, which appends
\* it to children and goes on to the next symbol
AppendChild(p, node) ==
    SetTop(p, [Top(p) EXCEPT !.children = Append(@, node), !.i = @ + 1])

\* a call of parseNonTerminal returns (node, nil) to its caller
ReturnNode(p, node) ==
    IF p.stack = <<>>
    THEN [p EXCEPT !.ret = [kind |-> "ok", tree |-> <<node>>, err |-> ""]]
    ELSE AppendChild(p, node)

\* parseNonTerminal, lines 75-81: the lookup of the production and the
\* creation of the node, before the loop
EnterNonTerminal(p, grammar, symbol, parentID) ==
    IF symbol \notin DOMAIN grammar.Productions
    THEN ReturnError(p, UndefinedError(symbol))
    ELSE LET q == createNode(p, symbol, FALSE, parentID) IN
         [q EXCEPT !.stack = Append(@, Frame(symbol, parentID, q.nodeID))]

\* parseNonTerminal, lines 86-89: the snapshot before an alternative
TryAlternativeStep(p) ==
    SetTop(p, [Top(p) EXCEPT
        !.savedPos = p.pos, !.savedStepsLen = Len(p.steps),
        !.children = <<>>, !.i = 0, !.phase = "in"])

\* BacktrackStep without the truncation of the step log
BacktrackKeepSteps(p) ==
    LET f == Top(p) IN
    SetTop([p EXCEPT !.pos = f.savedPos],
           [f EXCEPT !.alt = @ + 1, !.phase = "try", !.err = ""])

\* BacktrackStep without the restoration of the cursor
BacktrackKeepPos(p) ==
    LET f == Top(p) IN
    SetTop([p EXCEPT !.steps = SubSeq(@, 1, f.savedStepsLen)],
           [f EXCEPT !.alt = @ + 1, !.phase = "try", !.err = ""])

\* BacktrackStep that also takes the counter back, to the id of the call
BacktrackReuseIds(p) ==
    LET f == Top(p) IN
    SetTop([p EXCEPT !.pos = f.savedPos, !.nodeID = f.node.ID,
                     !.steps = SubSeq(@, 1, f.savedStepsLen)],
           [f EXCEPT !.alt = @ + 1, !.phase = "try", !.err = ""])

\* BacktrackStep that passes over the alternative after the failed one
BacktrackSkipOne(p) ==
    LET f == Top(p) IN
    SetTop([p EXCEPT !.pos = f.savedPos,
                     !.steps = SubSeq(@, 1, f.savedStepsLen)],
           [f EXCEPT !.alt = @ + 2, !.phase = "try", !.err = ""])

\* parseNonTerminal, lines 95-97: backtracking after a failed alternative
BacktrackStep(p) ==
    LET f == Top(p) IN
    SetTop([p EXCEPT !.pos = f.savedPos,
                     !.steps = SubSeq(@, 1, f.savedStepsLen)],
           [f EXCEPT !.alt = @ + 1, !.phase = "try", !.err = ""])

\* parseNonTerminal, lines 100-101: every alternative has failed
ExhaustedStep(p) ==
    ReturnError(Pop(p), NoMatchError(p, Top(p).symbol))

\* SucceedStep that returns the node without the children of the alternative
SucceedStepNoChildren(p) ==
    ReturnNode(Pop(p), Top(p).node)

\* parseNonTerminal, lines 90-93: the alternative has succeeded
SucceedStep(p) ==
    LET f == Top(p) IN
    ReturnNode(Pop(p), [f.node EXCEPT !.Children = f.children])

\* parseAlternative, lines 110-114: the epsilon marker
EpsilonStep(p) ==
    LET q == createNode(p, "ε", TRUE, Top(p).node.ID) IN
    AppendChild(q, TreeNode(q.nodeID, "ε", TRUE))

\* MatchStep with the kind of the token as the label of the node
MatchStepKindLabel(p) ==
    LET displayValue == current(p).Type
        q == createNode(p, displayValue, TRUE, Top(p).node.ID)
    IN AppendChild(advance(q), TreeNode(q.nodeID, displayValue, TRUE))

\* matchTerminal on a match, lines 166-174
MatchStep(p) ==
    LET displayValue == current(p).Value
        q == createNode(p, displayValue, TRUE, Top(p).node.ID)
    IN AppendChild(advance(q), TreeNode(q.nodeID, displayValue, TRUE))

\* MismatchStep that moves the cursor past the token it refused
MismatchStepAdvance(p, symbol) ==
    SetTop(advance(p),
           [Top(p) EXCEPT !.phase = "failed",
                          !.err = MismatchError(symbol, current(p))])

\* matchTerminal on a mismatch, lines 161-164, and the return of
\* parseAlternative, lines 119-121
MismatchStep(p, symbol) ==
    SetTop(p, [Top(p) EXCEPT !.phase = "failed",
                             !.err = MismatchError(symbol, current(p))])

\* the recursion of parseNonTerminal never ends when a call starts for a
\* symbol at a cursor at which a call for the same symbol is already active:
\* the call repeats what the active call did, down to the same call again
Recursing(p, symbol) ==
    \E k \in 1..Len(p.stack) :
        p.stack[k].symbol = symbol /\ p.stack[k].savedPos = p.pos

\* isOperatorOrLiteral of grammar.go
isOperatorOrLiteral(symbol) ==
    symbol \in {"+", "-", "*", "/", "(", ")", "number", "ε", "epsilon"}

\* Grammar.IsTerminal
IsTerminal(g, symbol) == symbol \in g.Terminals \/ isOperatorOrLiteral(symbol)

\* Grammar.IsNonTerminal
IsNonTerminal(g, symbol) == symbol \in g.NonTerminals

\* ParseResult; Tree and Tokens are empty sequences when the field is nil
ParseResult(success, tree, steps, error, tokens) ==
    [Success |-> success, Tree |-> tree, Steps |-> steps,
     Error |-> error, Tokens |-> tokens]

NoResult == ParseResult(FALSE, <<>>, <<>>, "", <<>>)

\* ParseReset without the reset of the cursor
ParseResetKeepCursor(p, input, recordSteps) ==
    [p EXCEPT !.tokens = Tokenize(input), !.nodeID = 0,
              !.steps = <<>>, !.recordSteps = recordSteps,
              !.stack = <<>>, !.ret = NoReturn]

\* ParseReset without the reset of the node-id counter
ParseResetKeepCounter(p, input, recordSteps) ==
    [p EXCEPT !.tokens = Tokenize(input), !.pos = 0,
              !.steps = <<>>, !.recordSteps = recordSteps,
              !.stack = <<>>, !.ret = NoReturn]

\* Parser.Parse, lines 33-38: the engine state at the start of a parse
ParseReset(p, input, recordSteps) ==
    [p EXCEPT !.tokens = Tokenize(input), !.pos = 0, !.nodeID = 0,
              !.steps = <<>>, !.recordSteps = recordSteps,
              !.stack = <<>>, !.ret = NoReturn]

\* Parser.Parse, lines 47-51
NoStartSymbolResult(p) ==
    ParseResult(FALSE, <<>>, <<>>, "Grammar has no start symbol", p.tokens)

\* ParseOutcome without the check that all tokens were consumed
ParseOutcomeNoEofCheck(p) ==
    IF p.ret.kind = "err"
    THEN ParseResult(FALSE, <<>>, <<>>, p.ret.err, p.tokens)
    ELSE ParseResult(TRUE, p.ret.tree, p.steps, "", p.tokens)

\* ParseOutcome with failures built as fresh results, without the tokens
ParseOutcomeDropTokens(p) ==
    IF p.ret.kind = "err"
    THEN ParseResult(FALSE, <<>>, <<>>, p.ret.err, <<>>)
    ELSE IF current(p).Type # TOKEN_EOF
    THEN ParseResult(FALSE, <<>>, <<>>, TrailingError(p), <<>>)
    ELSE ParseResult(TRUE, p.ret.tree, p.steps, "", p.tokens)

\* Parser.Parse, lines 54-70: after parseNonTerminal has returned
ParseOutcome(p) ==
    IF p.ret.kind = "err"
    THEN ParseResult(FALSE, <<>>, <<>>, p.ret.err, p.tokens)
    ELSE IF current(p).Type # TOKEN_EOF
    THEN ParseResult(FALSE, <<>>, <<>>, TrailingError(p), p.tokens)
    ELSE ParseResult(TRUE, p.ret.tree, p.steps, "", p.tokens)

\* ------------------------------------------------------------- bindings

\* App.ParseString and App.ParseStepByStep, lines 537-549: the result when
\* validation fails
ValidationFailedResult(validation) ==
    ParseResult(FALSE, <<>>, <<>>,
                "Grammar validation failed: " \o Join(validation.Errors, "; "),
                <<>>)


\* ---------------------------------------------------------------- inputs

\* GetDefaultArithmeticGrammar:
\*   E  -> T E'
\*   E' -> + T E' | - T E' | ε
\*   T  -> F T'
\*   T' -> * F T' | / F T' | ε
\*   F  -> ( E ) | number
DefaultArithmeticGrammar ==
    <<"E", " ", " ", "-", ">", " ", "T", " ", "E", "'", "\n", "E",
      "'", " ", "-", ">", " ", "+", " ", "T", " ", "E", "'", " ",
      "|", " ", "-", " ", "T", " ", "E", "'", " ", "|", " ", "ε",
      "\n", "T", " ", " ", "-", ">", " ", "F", " ", "T", "'", "\n",
      "T", "'", " ", "-", ">", " ", "*", " ", "F", " ", "T", "'",
      " ", "|", " ", "/", " ", "F", " ", "T", "'", " ", "|", " ",
      "ε", "\n", "F", " ", " ", "-", ">", " ", "(", " ", "E", " ",
      ")", " ", "|", " ", "n", "u", "m", "b", "e", "r" >>

\* an alternative that fails after a nested expansion has consumed a token:
\*   S -> A b | A
\*   A -> a
BacktrackGrammar ==
    <<"S", " ", "-", ">", " ", "A", " ", "b", " ", "|", " ", "A",
      "\n", "A", " ", "-", ">", " ", "a" >>

\* direct left recursion:
\*   S -> S a | b
LeftRecursiveGrammar ==
    <<"S", " ", "-", ">", " ", "S", " ", "a", " ", "|", " ", "b" >>

\* left recursion through a second non-terminal:
\*   S -> A
\*   A -> S a | b
IndirectRecursionGrammar ==
    <<"S", " ", "-", ">", " ", "A", "\n", "A", " ", "-", ">", " ",
      "S", " ", "a", " ", "|", " ", "b" >>

\* a head without a body that another production refers to:
\*   S -> X a
\*   X ->
HeadWithoutBodyGrammar ==
    <<"S", " ", "-", ">", " ", "X", " ", "a", "\n", "X", " ", "-",
      ">" >>

\* the start symbol's only line has no body:
\*   S ->
EmptyStartGrammar ==
    <<"S", " ", "-", ">" >>

\* no production at all:
\*   # none
CommentOnlyGrammar ==
    <<"#", " ", "n", "o", "n", "e" >>

\* the epsilon marker spelled as a word:
\*   S -> a S | epsilon
EpsilonGrammar ==
    <<"S", " ", "-", ">", " ", "a", " ", "S", " ", "|", " ", "e",
      "p", "s", "i", "l", "o", "n" >>

\* a comment, a line with an empty head, both separators, a line without
\* separator, one head on two lines:
\*   // lines
\*    -> b
\*   S → a b
\*   note
\*   S -> a | 3
MultiLineGrammar ==
    <<"/", "/", " ", "l", "i", "n", "e", "s", "\n", " ", "-", ">",
      " ", "b", "\n", "S", " ", "→", " ", "a", " ", "b", "\n", "n",
      "o", "t", "e", "\n", "S", " ", "-", ">", " ", "a", " ", "|",
      " ", "3" >>

\* the grammar  F -> number
FactorGrammar ==
    <<"F", " ", "-", ">", " ", "n", "u", "m", "b", "e", "r" >>

\* the grammar  S -> A 3 | A / A -> + | + +: on "++3" the first alternative of
\* A matches, and only the second would let S go on with 3
CommitGrammar ==
    <<"S", " ", "-", ">", " ", "A", " ", "3", " ", "|", " ", "A",
      "\n", "A", " ", "-", ">", " ", "+", " ", "|", " ", "+", " ",
      "+" >>

GrammarTexts ==
    {DefaultArithmeticGrammar,
     BacktrackGrammar,
     LeftRecursiveGrammar,
     IndirectRecursionGrammar,
     HeadWithoutBodyGrammar,
     EmptyStartGrammar,
     CommentOnlyGrammar,
     EpsilonGrammar,
     MultiLineGrammar,
     FactorGrammar,
     CommitGrammar}

\* the input "3 +"
InputThreePlus ==
    <<"3", " ", "+" >>

\* the input "3 3"
InputThreeThree ==
    <<"3", " ", "3" >>

\* the input "3 + 5 * 2"
InputSum ==
    <<"3", " ", "+", " ", "5", " ", "*", " ", "2" >>

\* the input "(3)"
InputParen ==
    <<"(", "3", ")" >>

\* the input "(3"
InputOpenParen ==
    <<"(", "3" >>

\* the input "2"
InputTwo ==
    <<"2" >>

ScenarioInputs ==
    {InputThreePlus, InputThreeThree, InputSum, InputParen, InputOpenParen,
     InputTwo}

\* the characters of the generated inputs, and their greatest length
InputAlphabet == {"3", "+", "a", "b", " "}

MaxInputLen == 3

Inputs ==
    ScenarioInputs
      \cup UNION {[1..n -> InputAlphabet] : n \in 0..MaxInputLen}

\* ----------------------------------------------------------------- state

VARIABLES
    grammarText,  \* the grammar text handed to the binding
    input,        \* the input string handed to the binding
    pc,           \* "idle", "running" (inside Parser.Parse), "done", "crashed"
    grammar,      \* the Grammar compiled from grammarText
    validation,   \* the ValidationResult of grammar
    p,            \* the Parser
    result,       \* the ParseResult returned
    previous,     \* the ParseResults this Parser returned before, oldest first
    tokens,       \* the tokens App.GetTokens returned
    other,        \* the invocations that are not running now: the input, pc,
                  \* Parser and result of each
    sharing,      \* the returned results whose Steps slice shares its storage
                  \* with the step log of the Parser: 0 for result, k for
                  \* previous[k]
    player        \* the step player of the page: the variables of main.js

vars ==
    <<grammarText, input, pc, grammar, validation, p, result, previous,
      tokens, other, sharing, player>>

NoValidation == [Valid |-> FALSE, Errors |-> <<>>, Warnings |-> <<>>]

\* main.js, lines 7-12: the state of the step player when the page is
\* loaded. currentSteps is the number of steps held, playInterval the handle
\* of the interval timer (0 for null), timers the handles of the interval
\* timers that are live, controls whether the step controls are shown,
\* awaiting the results of ParseStepByStep that calls of handleStepMode
\* wait for
InitialPlayer ==
    [currentSteps |-> 0, currentStepIndex |-> 0, isPlaying |-> FALSE,
     playInterval |-> 0, animationSpeed |-> 500, timers |-> {},
     controls |-> FALSE, awaiting |-> <<>>]

Init ==
    /\ grammarText \in GrammarTexts
    /\ input \in Inputs
    /\ pc = "idle"
    /\ grammar = EmptyGrammar
    /\ validation = NoValidation
    /\ p = NewParser
    /\ result = NoResult
    /\ previous = <<>>
    /\ tokens = <<>>
    /\ other = <<>>
    /\ sharing = {}
    /\ player = InitialPlayer

\* Parser.Parse of the text up to its call of parseNonTerminal for the
\* start symbol
ParseBeginOn(parser, g, text, recordSteps) ==
    LET q == ParseReset(parser, text, recordSteps) IN
    IF g.StartSymbol = ""
    THEN /\ p' = q
         /\ result' = NoStartSymbolResult(q)
         /\ pc' = "done"
    ELSE /\ p' = EnterNonTerminal(q, g, g.StartSymbol, -1)
         /\ result' = result
         /\ pc' = "running"

\* Parser.Parse of the input
ParseBegin(parser, g, recordSteps) ==
    ParseBeginOn(parser, g, input, recordSteps)

\* App.ParseString (recordSteps = FALSE) and App.ParseStepByStep (TRUE) up
\* to the call of parseNonTerminal for the start symbol
Bind(recordSteps) ==
    /\ pc = "idle"
    /\ grammar' = ParseGrammar(grammarText)
    /\ \E errOrder \in Perms(ErrorHeads(grammar')),
          warnOrder \in Perms(WarningHeads(grammar')) :
         validation' = ValidateGrammar(grammar', errOrder, warnOrder)
    /\ IF ~validation'.Valid
       THEN /\ result' = ValidationFailedResult(validation')
            /\ pc' = "done"
            /\ p' = p
       ELSE ParseBegin(NewParser, grammar', recordSteps)
    /\ UNCHANGED <<grammarText, input, previous, tokens, other, sharing,
                   player>>

ParseString == Bind(FALSE)

ParseStepByStep == Bind(TRUE)

Running == pc = "running" /\ p.stack # <<>>

Engine(q) ==
    /\ p' = q
    /\ UNCHANGED <<grammarText, input, pc, grammar, validation, result,
                   previous, tokens, other, sharing, player>>

TryAlternative ==
    /\ Running
    /\ Top(p).phase = "try"
    /\ Top(p).alt <= Len(Body(grammar, Top(p)))
    /\ Engine(TryAlternativeStep(p))

ExhaustAlternatives ==
    /\ Running
    /\ Top(p).phase = "try"
    /\ Top(p).alt > Len(Body(grammar, Top(p)))
    /\ Engine(ExhaustedStep(p))

InAlternative ==
    /\ Running
    /\ Top(p).phase = "in"
    /\ Top(p).i < Len(Body(grammar, Top(p))[Top(p).alt])

IsEpsilon(symbol) == symbol = "ε" \/ symbol = "epsilon"

MatchEpsilon ==
    /\ InAlternative
    /\ IsEpsilon(NextSymbol(grammar, Top(p)))
    /\ Engine(EpsilonStep(p))

AtTerminal ==
    /\ InAlternative
    /\ ~IsEpsilon(NextSymbol(grammar, Top(p)))
    /\ isTerminal(grammar, NextSymbol(grammar, Top(p)))

MatchTerminal ==
    /\ AtTerminal
    /\ Matched(NextSymbol(grammar, Top(p)), current(p))
    /\ Engine(MatchStep(p))

MismatchTerminal ==
    /\ AtTerminal
    /\ ~Matched(NextSymbol(grammar, Top(p)), current(p))
    /\ Engine(MismatchStep(p, NextSymbol(grammar, Top(p))))

AtNonTerminal ==
    /\ InAlternative
    /\ ~IsEpsilon(NextSymbol(grammar, Top(p)))
    /\ ~isTerminal(grammar, NextSymbol(grammar, Top(p)))

CallNonTerminal ==
    /\ AtNonTerminal
    /\ ~Recursing(p, NextSymbol(grammar, Top(p)))
    /\ Engine(EnterNonTerminal(p, grammar, NextSymbol(grammar, Top(p)),
                             Top(p).node.ID))

\* the recursion that never ends exhausts the goroutine's stack, which the
\* Go runtime answers by ending the process: no ParseResult is returned
StackOverflow ==
    /\ AtNonTerminal
    /\ Recursing(p, NextSymbol(grammar, Top(p)))
    /\ pc' = "crashed"
    /\ UNCHANGED <<grammarText, input, grammar, validation, p, result,
                   previous, tokens, other, sharing, player>>

FinishAlternative ==
    /\ Running
    /\ Top(p).phase = "in"
    /\ Top(p).i = Len(Body(grammar, Top(p))[Top(p).alt])
    /\ Engine(SucceedStep(p))

Backtrack ==
    /\ Running
    /\ Top(p).phase = "failed"
    /\ Engine(BacktrackStep(p))

\* Parser.Parse, line 69: result.Steps = p.steps makes the Steps of a
\* successful result the slice of the Parser, storage included; any other
\* result keeps the empty slice made for it
SharingAfterReturn(held, res) == IF res.Success THEN held \cup {0} ELSE held

\* the result returned last becomes the earlier result number n
Archive(held, n) == (held \ {0}) \cup (IF 0 \in held THEN {n} ELSE {})

\* Parse that empties the step log in place, p.steps = p.steps[:0]
SharingAfterResetInPlace(held) == held

\* Parser.Parse, line 37: p.steps = []Step{} is a new slice, which shares
\* its storage with no result
SharingAfterReset(held) == {}

\* Parser.Parse after parseNonTerminal has returned, and the return of the
\* binding
ParseReturn ==
    /\ pc = "running"
    /\ p.stack = <<>>
    /\ result' = ParseOutcome(p)
    /\ sharing' = SharingAfterReturn(sharing, result')
    /\ pc' = "done"
    /\ UNCHANGED <<grammarText, input, grammar, validation, p, previous,
                   tokens, other, player>>

Next ==
    \/ ParseString
    \/ ParseStepByStep
    \/ TryAlternative
    \/ ExhaustAlternatives
    \/ MatchEpsilon
    \/ MatchTerminal
    \/ MismatchTerminal
    \/ CallNonTerminal
    \/ StackOverflow
    \/ FinishAlternative
    \/ Backtrack
    \/ ParseReturn

Spec == Init /\ [][Next]_vars

\* a second call of Parse on the same Parser, with the arguments of the first
ParseAgain ==
    /\ pc = "done"
    /\ validation.Valid
    /\ previous = <<>>
    /\ previous' = <<result>>
    /\ sharing' = SharingAfterReset(Archive(sharing, 1))
    /\ ParseBegin(p, grammar, p.recordSteps)
    /\ UNCHANGED <<grammarText, input, grammar, validation, tokens, other,
                   player>>

NextTwice == Next \/ ParseAgain

SpecTwice == Init /\ [][NextTwice]_vars

\* the other binding called after the first with the same grammar text and
\* input: a new Parser on the compiled grammar, recordSteps the other way
ParseOther ==
    /\ pc = "done"
    /\ validation.Valid
    /\ previous = <<>>
    /\ previous' = <<result>>
    /\ sharing' = {}
    /\ ParseBegin(NewParser, grammar, ~p.recordSteps)
    /\ UNCHANGED <<grammarText, input, grammar, validation, tokens, other,
                   player>>

NextBoth == Next \/ ParseOther

SpecBoth == Init /\ [][NextBoth]_vars

\* ------------------------------------------------------ series of parses

SeriesGrammars ==
    {BacktrackGrammar, EpsilonGrammar, FactorGrammar, LeftRecursiveGrammar}

SeriesInputs == {<<"a">>, <<"a", " ", "b">>, <<"3">>, InputThreePlus}

\* the greatest number of calls of Parse on one Parser
MaxParses == 3

InitSeries ==
    /\ grammarText \in SeriesGrammars
    /\ input \in SeriesInputs
    /\ pc = "idle"
    /\ grammar = EmptyGrammar
    /\ validation = NoValidation
    /\ p = NewParser
    /\ result = NoResult
    /\ previous = <<>>
    /\ tokens = <<>>
    /\ other = <<>>
    /\ sharing = {}
    /\ player = InitialPlayer

\* a further call of Parse on the same Parser, with any input and any
\* recordSteps, up to the call of parseNonTerminal for the start symbol
ParseNext ==
    /\ pc = "done"
    /\ validation.Valid
    /\ Len(previous) + 1 < MaxParses
    /\ previous' = Append(previous, result)
    /\ sharing' = SharingAfterReset(Archive(sharing, Len(previous) + 1))
    /\ \E text \in SeriesInputs, recordSteps \in BOOLEAN :
          /\ input' = text
          /\ ParseBeginOn(p, grammar, text, recordSteps)
    /\ UNCHANGED <<grammarText, grammar, validation, tokens, other, player>>

NextSeries == Next \/ ParseNext

SpecSeries == InitSeries /\ [][NextSeries]_vars

\* ------------------------------------------------- compiled grammars

\* a head with the name of a built-in terminal:
\*   S -> number
\*   number -> a
BuiltinHeadGrammar ==
    <<"S", " ", "-", ">", " ", "n", "u", "m", "b", "e", "r", "\n",
      "n", "u", "m", "b", "e", "r", " ", "-", ">", " ", "a" >>

\* the grammar texts and the inputs of the parses that look at the compiled
\* grammar: the short texts, each with a trait of its own
CompileGrammars ==
    (GrammarTexts \ {DefaultArithmeticGrammar}) \cup {BuiltinHeadGrammar}

CompileInputs == {<<>>, <<"3">>, <<"a", " ", "b">>, InputThreePlus}

InitCompile ==
    /\ grammarText \in CompileGrammars
    /\ input \in CompileInputs
    /\ pc = "idle"
    /\ grammar = EmptyGrammar
    /\ validation = NoValidation
    /\ p = NewParser
    /\ result = NoResult
    /\ previous = <<>>
    /\ tokens = <<>>
    /\ other = <<>>
    /\ sharing = {}
    /\ player = InitialPlayer

SpecCompile == InitCompile /\ [][Next]_vars

\* ---------------------------------------------------- concurrent parses

\* one step of the engine as a function of the Parser: the step the actions
\* TryAlternative .. Backtrack take from p
EngineStep(q, g) ==
    LET f == Top(q) IN
    IF f.phase = "try"
    THEN IF f.alt <= Len(Body(g, f))
         THEN TryAlternativeStep(q) ELSE ExhaustedStep(q)
    ELSE IF f.phase = "failed" THEN BacktrackStep(q)
    ELSE IF f.i = Len(Body(g, f)[f.alt]) THEN SucceedStep(q)
    ELSE LET symbol == NextSymbol(g, f) IN
         IF IsEpsilon(symbol) THEN EpsilonStep(q)
         ELSE IF isTerminal(g, symbol)
              THEN IF Matched(symbol, current(q))
                   THEN MatchStep(q) ELSE MismatchStep(q, symbol)
         ELSE EnterNonTerminal(q, g, symbol, f.node.ID)

\* the engine is about to start the recursion that never ends
Overflowing(q, g) ==
    LET f == Top(q) IN
    /\ f.phase = "in"
    /\ f.i < Len(Body(g, f)[f.alt])
    /\ ~IsEpsilon(NextSymbol(g, f))
    /\ ~isTerminal(g, NextSymbol(g, f))
    /\ Recursing(q, NextSymbol(g, f))

\* parseNonTerminal for the start symbol run to its return, no other
\* invocation running: the Parser at the return, or the stack overflow
RECURSIVE RunAlone(_, _)
RunAlone(q, g) ==
    IF q.stack = <<>> THEN [crashed |-> FALSE, p |-> q]
    ELSE IF Overflowing(q, g) THEN [crashed |-> TRUE, p |-> q]
    ELSE RunAlone(EngineStep(q, g), g)

\* Parser.Parse on a new Parser, no other invocation running: the
\* ParseResult it returns, unless the process ends
ParseAlone(g, text, recordSteps) ==
    LET q == ParseReset(NewParser, text, recordSteps) IN
    IF g.StartSymbol = ""
    THEN [crashed |-> FALSE, result |-> NoStartSymbolResult(q)]
    ELSE LET r == RunAlone(EnterNonTerminal(q, g, g.StartSymbol, -1), g) IN
         IF r.crashed THEN [crashed |-> TRUE, result |-> NoResult]
         ELSE [crashed |-> FALSE, result |-> ParseOutcome(r.p)]

\* the grammar  S -> a | S b: S is left-recursive in its second alternative, which
\* is tried when the input does not start with a
LateRecursionGrammar ==
    <<"S", " ", "-", ">", " ", "a", " ", "|", " ", "S", " ", "b" >>

ConcurrentGrammars == {BacktrackGrammar, EpsilonGrammar, LateRecursionGrammar}

ConcurrentInputs == {<<"a">>, <<"b">>, <<"a", "b">>, <<"a", "a">>}

\* an invocation that does not run now
Invocation(text, at, parser, res) ==
    [input |-> text, pc |-> at, p |-> parser, result |-> res]

InitConcurrent ==
    /\ grammarText \in ConcurrentGrammars
    /\ input \in ConcurrentInputs
    /\ pc = "idle"
    /\ grammar = EmptyGrammar
    /\ validation = NoValidation
    /\ p = NewParser
    /\ result = NoResult
    /\ previous = <<>>
    /\ tokens = <<>>
    /\ \E text \in ConcurrentInputs :
          other = <<Invocation(text, "idle", NewParser, NoResult)>>
    /\ sharing = {}
    /\ player = InitialPlayer

\* the scheduler lets the other invocation run: each invocation has its own
\* Parser, input and result; the Grammar is the one both were made with
SwitchInvocation ==
    /\ other # <<>>
    /\ pc # "crashed"
    /\ other' = <<Invocation(input, pc, p, result)>>
    /\ input' = other[1].input
    /\ pc' = other[1].pc
    /\ p' = other[1].p
    /\ result' = other[1].result
    /\ sharing' = IF other[1].pc = "done"
                  THEN SharingAfterReturn({}, other[1].result) ELSE {}
    /\ UNCHANGED <<grammarText, grammar, validation, previous, tokens,
                   player>>

\* NewParser(grammar).Parse(input, recordSteps) on the Grammar another
\* invocation compiled and validated, up to the call for the start symbol
ParseShared ==
    /\ pc = "idle"
    /\ other # <<>> /\ other[1].pc # "idle"
    /\ validation.Valid
    /\ \E recordSteps \in BOOLEAN : ParseBegin(NewParser, grammar, recordSteps)
    /\ UNCHANGED <<grammarText, input, grammar, validation, previous, tokens,
                   other, sharing, player>>

NextConcurrent == Next \/ SwitchInvocation \/ ParseShared

SpecConcurrent == InitConcurrent /\ [][NextConcurrent]_vars

\* ------------------------------------------------------- token binding

\* the characters of the inputs of the lexer, and their greatest length: a
\* digit, a letter, the characters an identifier and a number go on with,
\* two operators, two kinds of whitespace, and two characters no token
\* starts with, one of one byte and one of two
LexAlphabet == {"3", "a", "_", ".", "+", ")", " ", "\n", "?", "§"}

MaxLexLen == 3

\* the bytes of a character in the string the binding receives
Utf8(c) == IF c = "§" THEN <<"Â", "§">> ELSE <<c>>

Utf8All(cs) == Flatten([k \in 1..Len(cs) |-> Utf8(cs[k])])

LexInputs ==
    {Utf8All(cs) : cs \in UNION {[1..n -> LexAlphabet] : n \in 0..MaxLexLen}}

InitLex ==
    /\ grammarText = DefaultArithmeticGrammar
    /\ input \in LexInputs
    /\ pc = "idle"
    /\ grammar = EmptyGrammar
    /\ validation = NoValidation
    /\ p = NewParser
    /\ result = NoResult
    /\ previous = <<>>
    /\ tokens = <<>>
    /\ other = <<>>
    /\ sharing = {}
    /\ player = InitialPlayer

\* App.GetTokens
GetTokens ==
    /\ pc = "idle"
    /\ tokens' = Tokenize(input)
    /\ pc' = "done"
    /\ UNCHANGED <<grammarText, input, grammar, validation, p, result,
                   previous, other, sharing, player>>

SpecLex == InitLex /\ [][GetTokens]_vars


\* ---------------------------------------------------------- step player

\* the greatest number of interval timers live at once, and of calls of
\* handleStepMode waiting for their result
MaxTimers == 3

MaxAwaiting == 2

\* the grammar and input in the fields of the page when Step Mode is
\* clicked: a parse of two steps, one of four, one that fails
PlayerRuns ==
    {<<FactorGrammar, InputTwo>>, <<EpsilonGrammar, <<"a">>>>,
     <<FactorGrammar, <<"a">>>>}

\* the values of the speed slider
Speeds == {500, 1000}

\* App.ParseStepByStep for a grammar text that is valid
StepByStepResult(text, in) == ParseAlone(ParseGrammar(text), in, TRUE).result

\* setInterval: a handle no live timer has
NewTimer(pl) ==
    CHOOSE t \in 1..(MaxTimers + 1) :
        /\ t \notin pl.timers \cup {pl.playInterval}
        /\ \A u \in 1..(t - 1) : u \in pl.timers \cup {pl.playInterval}

\* stopAutoPlay
stopAutoPlay(pl) ==
    IF pl.playInterval # 0
    THEN [pl EXCEPT !.isPlaying = FALSE,
                    !.timers = @ \ {pl.playInterval}, !.playInterval = 0]
    ELSE [pl EXCEPT !.isPlaying = FALSE]

\* startAutoPlay
startAutoPlay(pl) ==
    [pl EXCEPT !.isPlaying = TRUE,
               !.timers = @ \cup {NewTimer(pl)},
               !.playInterval = NewTimer(pl)]

\* hideStepControls
hideStepControls(pl) == [stopAutoPlay(pl) EXCEPT !.controls = FALSE]

\* the callback of the interval timer
TimerCallback(pl) ==
    IF pl.currentStepIndex < pl.currentSteps
    THEN [pl EXCEPT !.currentStepIndex = @ + 1]
    ELSE stopAutoPlay(pl)

\* handleStepMode after its await, with the result of ParseStepByStep
StepModeContinue(pl, res) ==
    IF res.Success
    THEN [pl EXCEPT !.currentSteps = Len(res.Steps), !.currentStepIndex = 0,
                    !.isPlaying = FALSE, !.controls = TRUE]
    ELSE hideStepControls(pl)

Without(seq, k) == SubSeq(seq, 1, k - 1) \o SubSeq(seq, k + 1, Len(seq))

PlayerOnly ==
    UNCHANGED <<grammarText, input, pc, grammar, validation, p, result,
                previous, tokens, other, sharing>>

InitPlayer ==
    /\ grammarText = FactorGrammar
    /\ input = InputTwo
    /\ pc = "idle"
    /\ grammar = EmptyGrammar
    /\ validation = NoValidation
    /\ p = NewParser
    /\ result = NoResult
    /\ previous = <<>>
    /\ tokens = <<>>
    /\ other = <<>>
    /\ sharing = {}
    /\ player = InitialPlayer

\* handleParse: the step controls are hidden before the call of ParseString,
\* whose result the step player does not use
HandleParse ==
    /\ player' = hideStepControls(player)
    /\ PlayerOnly

\* handleStepMode up to its await: ParseStepByStep is called with the texts
\* of the fields
HandleStepMode ==
    /\ Len(player.awaiting) < MaxAwaiting
    /\ \E run \in PlayerRuns :
          player' = [player EXCEPT
                       !.awaiting = Append(@, StepByStepResult(run[1], run[2]))]
    /\ PlayerOnly

\* a call of ParseStepByStep returns and handleStepMode goes on
StepModeReturn ==
    /\ \E k \in 1..Len(player.awaiting) :
          player' = [StepModeContinue(player, player.awaiting[k]) EXCEPT
                       !.awaiting = Without(player.awaiting, k)]
    /\ PlayerOnly

\* handlePrevStep
HandlePrevStep ==
    /\ player.controls
    /\ player.currentStepIndex > 0
    /\ player' = [player EXCEPT !.currentStepIndex = @ - 1]
    /\ PlayerOnly

\* handleNextStep
HandleNextStep ==
    /\ player.controls
    /\ player.currentStepIndex < player.currentSteps
    /\ player' = [player EXCEPT !.currentStepIndex = @ + 1]
    /\ PlayerOnly

\* handlePlayPause
HandlePlayPause ==
    /\ player.controls
    /\ player.isPlaying \/ Cardinality(player.timers) < MaxTimers
    /\ player' = IF player.isPlaying THEN stopAutoPlay(player)
                  ELSE startAutoPlay(player)
    /\ PlayerOnly

\* handleResetSteps
HandleResetSteps ==
    /\ player.controls
    /\ player' = [stopAutoPlay(player) EXCEPT !.currentStepIndex = 0]
    /\ PlayerOnly

\* handleSpeedChange
HandleSpeedChange ==
    /\ player.controls
    /\ \E speed \in Speeds :
          LET pl == [player EXCEPT !.animationSpeed = speed] IN
          player' = IF pl.isPlaying THEN startAutoPlay(stopAutoPlay(pl))
                    ELSE pl
    /\ PlayerOnly

\* an interval timer that is live fires
Tick ==
    /\ player.timers # {}
    /\ player' = TimerCallback(player)
    /\ PlayerOnly

NextPlayer ==
    \/ HandleParse
    \/ HandleStepMode
    \/ StepModeReturn
    \/ HandlePrevStep
    \/ HandleNextStep
    \/ HandlePlayPause
    \/ HandleResetSteps
    \/ HandleSpeedChange
    \/ Tick

SpecPlayer == InitPlayer /\ [][NextPlayer]_vars

\* --------------------------------------------------------------- replay

\* renderPartialTree for the whole log, ids and children only: nodeMap maps
\* the id of every node made so far to the ids of its children, rootNodes
\* lists the nodes made without a parent in the map
RECURSIVE ReplaySteps(_, _, _)
ReplaySteps(steps, nodeMap, rootNodes) ==
    IF steps = <<>> THEN [nodeMap |-> nodeMap, rootNodes |-> rootNodes]
    ELSE LET step == Head(steps)
             known == DOMAIN nodeMap
             fresh == [n \in known \cup {step.NodeID} |->
                          IF n = step.NodeID THEN <<>> ELSE nodeMap[n]]
         IN IF step.ParentID = -1 \/ step.ParentID = 0
               \/ step.ParentID \notin known \cup {step.NodeID}
            THEN ReplaySteps(Tail(steps), fresh, Append(rootNodes, step.NodeID))
            ELSE ReplaySteps(Tail(steps),
                             [fresh EXCEPT ![step.ParentID] =
                                               Append(@, step.NodeID)],
                             rootNodes)

\* the tree of ids below node n of a replay; depth bounds the unfolding
RECURSIVE ReplayedNode(_, _, _)
ReplayedNode(nodeMap, n, depth) ==
    [ID |-> n,
     Children |-> IF depth = 0 THEN <<>>
                  ELSE [k \in 1..Len(nodeMap[n]) |->
                          ReplayedNode(nodeMap, nodeMap[n][k], depth - 1)]]

\* the tree renderPartialTree draws: the first root, or nothing
Replay(steps) ==
    LET r == ReplaySteps(steps, <<>>, <<>>) IN
    IF r.rootNodes = <<>> THEN <<>>
    ELSE <<ReplayedNode(r.nodeMap, r.rootNodes[1], Len(steps))>>

\* a TreeNode without its labels
RECURSIVE Shape(_)
Shape(node) ==
    [ID |-> node.ID,
     Children |-> [k \in 1..Len(node.Children) |-> Shape(node.Children[k])]]

RECURSIVE SumSeq(_)
SumSeq(ns) == IF ns = <<>> THEN 0 ELSE Head(ns) + SumSeq(Tail(ns))

RECURSIVE NodeCount(_)
NodeCount(node) ==
    1 + SumSeq([k \in 1..Len(node.Children) |-> NodeCount(node.Children[k])])

\* --------------------------------------------------------------- claims

Done == pc = "done"

\* C1: Exhaustive consumption. Whenever Parse returns success = true the
\* cursor is on the EOF token, which is the last token, and no token before
\* the cursor is an EOF token: every non-EOF token has been consumed.
ExhaustiveConsumption ==
    (Done /\ result.Success) =>
        /\ p.pos + 1 = Len(p.tokens)
        /\ p.tokens[p.pos + 1].Type = TOKEN_EOF
        /\ \A k \in 1..p.pos : p.tokens[k].Type # TOKEN_EOF

\* a successful parse that consumed at least two tokens
ExhaustiveConsumptionWitness ==
    Done /\ result.Success /\ p.pos >= 2

\* C2: Step/tree consistency. For every successful parse with recordSteps,
\* replaying the whole returned log gives a tree with the shape, the node ids
\* and the child order of result.Tree, and the log has one step per node of
\* result.Tree, also after alternatives were abandoned.
StepTreeConsistency ==
    (Done /\ result.Success /\ p.recordSteps) =>
        /\ Replay(result.Steps) = <<Shape(result.Tree[1])>>
        /\ Len(result.Steps) = NodeCount(result.Tree[1])

\* a successful recorded parse in which abandoned alternatives had made
\* nodes: more ids were handed out than the tree holds
StepTreeWitness ==
    /\ Done /\ result.Success /\ p.recordSteps
    /\ Len(result.Steps) >= 3
    /\ p.nodeID > Len(result.Steps)

\* C3: Backtracking correctness. When parseNonTerminal is back at the head
\* of its loop after a failed alternative, the cursor is the one saved before
\* that alternative, the step log has the length saved before it, and (when
\* recording) the last step of the log is the one of the non-terminal's own
\* node: no step of the failed attempt is left.
BacktrackingRestores ==
    (Running /\ Top(p).phase = "try" /\ Top(p).alt > 1) =>
        /\ p.pos = Top(p).savedPos
        /\ Len(p.steps) = Top(p).savedStepsLen
        /\ p.recordSteps =>
              /\ p.steps # <<>>
              /\ p.steps[Len(p.steps)].NodeID = Top(p).node.ID

\* S -> A b | A on "a": the first alternative expanded A, consumed a and
\* recorded two steps before it failed on b; the second is about to start
BacktrackingWitness ==
    /\ grammarText = BacktrackGrammar /\ input = <<"a">>
    /\ Running /\ Len(p.stack) = 1
    /\ Top(p).phase = "try" /\ Top(p).alt = 2
    /\ p.recordSteps /\ p.nodeID = 3 /\ p.pos = 0 /\ Len(p.steps) = 1


\* C4: parse and parseWithSteps return a ParseResult for every grammar text
\* and input: no call ends abnormally.
AlwaysReturnsResult == pc # "crashed"

\* C5: Determinism. A second parse of the same input with the same
\* recordSteps on the same grammar returns the result of the first: the same
\* success flag, error, tokens, tree (ids included) and step log.
DeterministicParse ==
    (Done /\ previous # <<>>) => result = previous[1]

\* a second successful recorded parse whose first alternatives were abandoned
DeterministicWitness ==
    /\ Done /\ previous # <<>>
    /\ result.Success /\ p.recordSteps
    /\ p.nodeID > Len(result.Steps) /\ Len(result.Steps) >= 3

\* the body symbols registered as non-terminals that have no alternative
Unproductive(g) ==
    {X \in BodySymbols(g) \cap g.NonTerminals :
        X \notin DOMAIN g.Productions \/ g.Productions[X].Body = <<>>}

\* C6: validation is invalid, with an error for the symbol, whenever a
\* symbol registered as a non-terminal is referenced in a body and has no
\* production of its own, as X in  S -> X a / X ->.
UndefinedReferenceInvalid ==
    pc # "idle" =>
        \A X \in Unproductive(grammar) :
            /\ ~validation.Valid
            /\ \E k \in 1..Len(validation.Errors) :
                  validation.Errors[k] = "Undefined non-terminal: " \o X

\* the errors the engine can report for the end of input after "3 +": a
\* terminal expected at the EOF token (source position 3), or a non-terminal
\* without matching production at cursor 2
EndOfInputErrors(g) ==
    {MismatchError(t, Token(TOKEN_EOF, "", 3)) :
        t \in g.Terminals \cup BuiltinTerminals}
      \cup {NoMatchMessage(n, 2, "") : n \in g.NonTerminals}

DefaultOn(text) == grammarText = DefaultArithmeticGrammar /\ input = text

\* C7 as stated: the default grammar on "3 +" fails with an error for the
\* end of input that follows the +.
ThreePlusEndOfInputError ==
    (Done /\ DefaultOn(InputThreePlus)) =>
        /\ ~result.Success
        /\ result.Error \in EndOfInputErrors(grammar)

\* C7 as amended: the default grammar on "3 +" fails with the trailing-input
\* error for the + itself, and no tree.
ThreePlusTrailingError ==
    (Done /\ DefaultOn(InputThreePlus)) =>
        /\ ~result.Success
        /\ result.Tree = <<>>
        /\ result.Error = "Unexpected token '+' at position 2"

\* "3 +" parsed: E' gave up + T E' at the end of input and matched ε, so
\* the start symbol succeeded with the cursor back on the +
ThreePlusWitness ==
    /\ Done /\ DefaultOn(InputThreePlus)
    /\ p.ret.kind = "ok" /\ p.pos = 1
    /\ current(p).Type = TOKEN_PLUS

\* C8: Trailing input. Whenever the start symbol has expanded and the cursor
\* is not on the EOF token, Parse returns failure without a tree and with an
\* error naming the text and the source position of the token under the
\* cursor; the default grammar on "3 3" parses the first 3 as E and names
\* the second 3, at position 2.
TrailingInputError ==
    /\ (Done /\ p.ret.kind = "ok" /\ p.tokens[p.pos + 1].Type # TOKEN_EOF) =>
          /\ ~result.Success
          /\ result.Tree = <<>>
          /\ result.Error =
                "Unexpected token '" \o p.tokens[p.pos + 1].Value
                  \o "' at position "
                  \o ToString(p.tokens[p.pos + 1].Position)
    /\ (Done /\ DefaultOn(InputThreeThree)) =>
          /\ p.ret.kind = "ok" /\ p.pos = 1
          /\ p.ret.tree[1].Label = "E"
          /\ ~result.Success
          /\ result.Error = "Unexpected token '3' at position 2"

\* "3 3" parsed with the default grammar
TrailingInputWitness ==
    /\ Done /\ DefaultOn(InputThreeThree)
    /\ p.ret.kind = "ok" /\ ~result.Success

WellFormedLog(steps) ==
    /\ \A k \in 1..(Len(steps) - 1) : steps[k].NodeID < steps[k + 1].NodeID
    /\ \A k \in 1..Len(steps) :
          IF k = 1 THEN steps[k].ParentID = -1
          ELSE /\ steps[k].ParentID # -1
               /\ \E j \in 1..(k - 1) : steps[j].NodeID = steps[k].ParentID

\* C10: every returned step log is well formed, a recorded successful parse
\* returns a log that starts with the root's step, and the log of the engine
\* is well formed at every point of the parse.
StepLogWellFormed ==
    /\ WellFormedLog(result.Steps)
    /\ WellFormedLog(p.steps)
    /\ (Done /\ result.Success /\ p.recordSteps) =>
          /\ result.Steps # <<>>
          /\ result.Steps[1].NodeID = 1

\* a returned log with a gap in its ids, left by an abandoned alternative
StepLogWitness ==
    /\ Done /\ result.Success
    /\ Len(result.Steps) >= 3
    /\ \E k \in 1..(Len(result.Steps) - 1) :
          result.Steps[k + 1].NodeID > result.Steps[k].NodeID + 1

\* the characters one of the single-character tokens is made of
OperatorChars == {"+", "-", "*", "/", "(", ")"}

\* the offsets of the input that lie inside the text of token t
Covered(t) == t.Position .. (t.Position + Len(t.Value) - 1)

\* a character that is no whitespace and starts no number, identifier or
\* single-character token
StartsNoToken(c) ==
    ~IsSpace(c) /\ ~IsDigit(c) /\ ~IsLetter(c) /\ c \notin OperatorChars

\* the offsets of the input inside the text of a number or an identifier
InsideRun(toks) ==
    UNION {Covered(toks[k]) :
             k \in {j \in 1..Len(toks) :
                      toks[j].Type \in {TOKEN_NUMBER, TOKEN_IDENT}}}

\* C11: tokenize returns for every input. The returned sequence has at most
\* one token per character and ends with one EOF token with empty text; no
\* earlier token is an EOF token; a whitespace character lies in no token,
\* every other character lies in the text of exactly one token; and every
\* character that starts no token and is not inside the run of a number or
\* an identifier gives one UNKNOWN token whose text is that character,
\* while no other character gives an UNKNOWN token.
TokenizeShape ==
    pc = "done" =>
        LET n == Len(tokens)
            offsets == 0..(Len(input) - 1)
        IN /\ n >= 1 /\ n <= Len(input) + 1
           /\ tokens[n].Type = TOKEN_EOF /\ tokens[n].Value = ""
           /\ \A k \in 1..(n - 1) : tokens[k].Type # TOKEN_EOF
           /\ \A i \in offsets :
                 LET c == input[i + 1]
                     holders == {k \in 1..n : i \in Covered(tokens[k])}
                     starting == {k \in 1..n : tokens[k].Position = i}
                 IN /\ IsSpace(c) => (holders = {} /\ starting = {})
                    /\ ~IsSpace(c) => Cardinality(holders) = 1
                    /\ (StartsNoToken(c) /\ i \notin InsideRun(tokens)) =>
                          /\ Cardinality(starting) = 1
                          /\ \A k \in starting :
                                tokens[k] = Token(TOKEN_UNKNOWN, c, i)
           /\ \A k \in 1..n :
                 tokens[k].Type = TOKEN_UNKNOWN =>
                     /\ tokens[k].Position \in offsets
                     /\ tokens[k].Value = input[tokens[k].Position + 1]
                     /\ StartsNoToken(input[tokens[k].Position + 1])
                     /\ tokens[k].Position \notin InsideRun(tokens)

\* an input with whitespace, a number and a character no token starts with
TokenizeWitness ==
    /\ pc = "done" /\ Len(input) = 3 /\ Len(tokens) = 3
    /\ \E i \in 1..3 : IsSpace(input[i])
    /\ \E k \in 1..3 : tokens[k].Type = TOKEN_UNKNOWN
    /\ \E k \in 1..3 : tokens[k].Type = TOKEN_NUMBER

\* C12: step recording is observation only. When the same grammar and input
\* were parsed with recordSteps = FALSE and with recordSteps = TRUE, the two
\* results have the same success flag, error, tokens and tree (labels, shape
\* and node ids), and the result of the parse that did not record has an
\* empty step log.
RecordingIsObservation ==
    (Done /\ previous # <<>>) =>
        LET plain == IF p.recordSteps THEN previous[1] ELSE result
            recorded == IF p.recordSteps THEN result ELSE previous[1]
        IN /\ plain.Success = recorded.Success
           /\ plain.Error = recorded.Error
           /\ plain.Tokens = recorded.Tokens
           /\ plain.Tree = recorded.Tree
           /\ plain.Steps = <<>>

\* both parses succeeded after abandoned alternatives; the recording one
\* returned a log, the other none
RecordingWitness ==
    /\ Done /\ previous # <<>> /\ ~p.recordSteps
    /\ result.Success /\ result.Steps = <<>>
    /\ Len(previous[1].Steps) >= 3
    /\ p.nodeID > Len(previous[1].Steps)
    /\ NodeCount(result.Tree[1]) = Len(previous[1].Steps)

\* the ParseResult an invocation returned is the one it returns when it runs
\* alone on the same Grammar
AsAlone(g, inv) ==
    LET alone == ParseAlone(g, inv.input, inv.p.recordSteps) IN
    ~alone.crashed /\ inv.result = alone.result

\* every invocation that has returned, the running one and the one that
\* waits, returned what it returns alone
ReturnsAsAlone ==
    validation.Valid =>
        /\ Done => AsAlone(grammar, Invocation(input, pc, p, result))
        /\ \A k \in 1..Len(other) :
              other[k].pc = "done" => AsAlone(grammar, other[k])

\* C13: parses that run concurrently on separate Parsers sharing one
\* Grammar do not interfere. Under every interleaving an invocation that
\* returns, returns the ParseResult it returns alone, and an invocation is
\* kept from returning only if it does not return alone either.
NoInterference ==
    /\ ReturnsAsAlone
    /\ pc = "crashed" =>
          \A k \in 1..Len(other) :
              other[k].pc = "running" =>
                  ParseAlone(grammar, other[k].input,
                             other[k].p.recordSteps).crashed

\* the alternatives of g that start with the head of their production, as
\* pairs of head and index
LeftRecursiveAlternatives(g) ==
    {ha \in UNION {{<<h, a>> : a \in 1..Len(g.Productions[h].Body)} :
                      h \in DOMAIN g.Productions} :
        LET alt == g.Productions[ha[1]].Body[ha[2]] IN
        alt # <<>> /\ alt[1] = ha[1]}

\* C14: left recursion is a warning, never an error. Validation holds one
\* warning, naming the head and the alternative, for every alternative whose
\* first symbol is the head of its production, and no other warning; the
\* result is invalid only when it holds an error, and no error is about left
\* recursion; for  S -> S a | b  the result is valid, without errors, with
\* the one warning for  S -> S a.
LeftRecursionWarns ==
    pc # "idle" =>
        /\ \A ha \in LeftRecursiveAlternatives(grammar) :
              \E k \in 1..Len(validation.Warnings) :
                  validation.Warnings[k] =
                      "Potential left recursion in production: " \o ha[1]
                        \o " -> "
                        \o Join(grammar.Productions[ha[1]].Body[ha[2]], " ")
        /\ Len(validation.Warnings)
              = Cardinality(LeftRecursiveAlternatives(grammar))
        /\ validation.Valid <=> validation.Errors = <<>>
        /\ \A k \in 1..Len(validation.Errors) :
              validation.Errors[k] \in
                  {"No start symbol defined", "Start symbol has no productions"}
                    \cup {"Undefined non-terminal: " \o X :
                             X \in grammar.NonTerminals}
        /\ grammarText = LeftRecursiveGrammar =>
              /\ validation.Valid
              /\ validation.Errors = <<>>
              /\ validation.Warnings =
                    <<"Potential left recursion in production: S -> S a">>

\* S -> S a | b  validated: accepted with its warning, and handed to Parse
LeftRecursionWitness ==
    /\ pc = "running" /\ grammarText = LeftRecursiveGrammar
    /\ validation.Valid /\ Len(validation.Warnings) = 1

\* C15: ParseStepByStep on the input "2" with the grammar  F -> number
\* succeeds with a log of exactly two steps: "Expand non-terminal <F>" for
\* node 1 with parent -1, then "Match terminal '2'" for node 2 with parent
\* 1; the terminal node is labelled with the token text 2.
FactorStepLog ==
    (Done /\ grammarText = FactorGrammar /\ input = InputTwo
          /\ p.recordSteps) =>
        /\ result.Success
        /\ result.Steps =
              <<[Action |-> "add", Description |-> "Expand non-terminal <F>",
                 NodeID |-> 1, ParentID |-> -1],
                [Action |-> "add", Description |-> "Match terminal '2'",
                 NodeID |-> 2, ParentID |-> 1]>>
        /\ result.Tree =
              <<[ID |-> 1, Label |-> "F", IsTerminal |-> FALSE,
                 Children |-> <<[ID |-> 2, Label |-> "2", IsTerminal |-> TRUE,
                                 Children |-> <<>>]>>]>>

\* "2" parsed step by step with  F -> number
FactorWitness ==
    /\ Done /\ grammarText = FactorGrammar /\ input = InputTwo
    /\ p.recordSteps /\ p.nodeID = 2 /\ p.pos = 1

\* the start symbol of g has no alternative
StartWithoutProductions(g) ==
    /\ g.StartSymbol # ""
    /\ \/ g.StartSymbol \notin DOMAIN g.Productions
       \/ g.Productions[g.StartSymbol].Body = <<>>

\* C16: validation is invalid, with an error, when the grammar has no start
\* symbol (empty or comment-only text) and when the start symbol has no
\* productions (its only line has an empty body).
StartSymbolChecked ==
    (pc # "idle"
       /\ (grammar.StartSymbol = "" \/ StartWithoutProductions(grammar))) =>
        /\ ~validation.Valid
        /\ validation.Errors # <<>>

\* the half of C16 about the missing start symbol
NoStartSymbolInvalid ==
    (pc # "idle" /\ grammar.StartSymbol = "") =>
        /\ ~validation.Valid
        /\ validation.Errors = <<"No start symbol defined">>

\* the kinds and texts of a token sequence
KindsAndTexts(toks) == [k \in 1..Len(toks) |-> <<toks[k].Type, toks[k].Value>>]

\* C17: with the default arithmetic grammar, parsing "3 + 5 * 2" succeeds;
\* the tokens are NUMBER 3, PLUS, NUMBER 5, MULT, NUMBER 2, EOF and the
\* root of the returned tree is the non-terminal node labelled E.
SumParses ==
    (Done /\ DefaultOn(InputSum)) =>
        /\ result.Success
        /\ result.Error = ""
        /\ KindsAndTexts(result.Tokens) =
              <<<<TOKEN_NUMBER, "3">>, <<TOKEN_PLUS, "+">>,
                <<TOKEN_NUMBER, "5">>, <<TOKEN_MULT, "*">>,
                <<TOKEN_NUMBER, "2">>, <<TOKEN_EOF, "">>>>
        /\ Len(result.Tree) = 1
        /\ result.Tree[1].Label = "E"
        /\ ~result.Tree[1].IsTerminal

\* "3 + 5 * 2" parsed with the default grammar, all five tokens consumed
SumWitness ==
    /\ Done /\ DefaultOn(InputSum)
    /\ p.ret.kind = "ok" /\ p.pos = 5
    /\ Len(result.Tree) = 1 /\ NodeCount(result.Tree[1]) > 5

\* the alternative the call of frame f is in has expanded all its symbols
Complete(g, f) == f.phase = "in" /\ f.i = Len(Body(g, f)[f.alt])

\* every alternative of the call of frame f has failed
Exhausted(g, f) == f.phase = "try" /\ f.alt > Len(Body(g, f))

\* one step of the engine keeps to the order of the alternatives: a call
\* starts at its first alternative under a new node id, goes to the next
\* alternative only from a failed attempt of the one before, returns its
\* node to its caller in the step after an alternative is complete, and
\* leaves the stack only then or when every alternative has failed
FirstMatchStep ==
    LET old == p.stack
        new == p'.stack
        n == Len(old)
        m == Len(new)
        kept == IF m < n THEN m ELSE n
    IN /\ m \in {n - 1, n, n + 1}
       /\ \A k \in 1..kept :
             /\ new[k].node.ID = old[k].node.ID
             /\ new[k].symbol = old[k].symbol
             /\ \/ new[k].alt = old[k].alt
                \/ /\ new[k].alt = old[k].alt + 1
                   /\ k = n /\ m = n
                   /\ old[k].phase = "failed" /\ new[k].phase = "try"
       /\ m = n + 1 =>
             /\ new[m].alt = 1 /\ new[m].phase = "try"
             /\ new[m].node.ID = p.nodeID + 1
             /\ p'.nodeID = p.nodeID + 1
             /\ \A k \in 1..n : old[k].node.ID <= p.nodeID
       /\ (n >= 1 /\ Complete(grammar, old[n])) =>
             LET node == [old[n].node EXCEPT !.Children = old[n].children]
             IN /\ m = n - 1
                /\ IF m = 0 THEN p'.ret.tree = <<node>>
                   ELSE new[m].children = Append(old[m].children, node)
       /\ m = n - 1 =>
             Complete(grammar, old[n]) \/ Exhausted(grammar, old[n])

\* S -> A 3 | A / A -> + | + +  on "++3": both calls of A return with + and
\* + + is never tried, so S fails on 3 and then leaves + 3 unconsumed
CommitScenario ==
    (Done /\ grammarText = CommitGrammar /\ input = <<"+", "+", "3">>) =>
        /\ ~result.Success
        /\ result.Error = "Unexpected token '+' at position 1"
        /\ p.nodeID = 5

\* C18: first match wins. A call of parseNonTerminal tries its alternatives
\* in declared order and returns with the first that expands all its
\* symbols; no later alternative of that call is tried afterwards, also when
\* the choice makes a following symbol of the enclosing alternative or the
\* check for full consumption fail.
FirstMatchWins == [][FirstMatchStep]_vars /\ []CommitScenario

\* "++3" parsed with the grammar of CommitScenario: A was called twice
FirstMatchWitness ==
    /\ Done /\ grammarText = CommitGrammar /\ input = <<"+", "+", "3">>
    /\ p.ret.kind = "ok" /\ p.pos = 1 /\ p.nodeID = 5

\* the ids of a tree in pre-order, children left to right
RECURSIVE PreOrder(_)
PreOrder(node) ==
    <<node.ID>> \o Flatten([k \in 1..Len(node.Children) |->
                              PreOrder(node.Children[k])])

StrictlyIncreasing(ns) == \A k \in 1..(Len(ns) - 1) : ns[k] < ns[k + 1]

\* one step and the node-id counter. The step that starts a parse leaves the
\* counter at the number of nodes made since its reset to 0: the root with
\* id 1, or none. Every other step keeps the counter or adds one, also the
\* step that backtracks; it adds one exactly when it makes a node, which
\* gets the new value: the node of a new call, whose frame keeps that id
\* through all its alternatives, or a terminal added to the children of the
\* running alternative.
CounterStep ==
    LET old == p.stack
        new == p'.stack
        n == Len(old)
        m == Len(new)
    IN IF pc \in {"idle", "done"}
       THEN p' # p =>
              /\ m \in {0, 1}
              /\ p'.nodeID = m
              /\ m = 1 => new[1].node.ID = 1 /\ new[1].phase = "try"
       ELSE /\ p'.nodeID \in {p.nodeID, p.nodeID + 1}
            /\ \A k \in 1..(IF m < n THEN m ELSE n) :
                  new[k].node.ID = old[k].node.ID
            /\ m = n + 1 =>
                  /\ p'.nodeID = p.nodeID + 1
                  /\ new[m].node.ID = p'.nodeID
            /\ (m = n /\ n >= 1
                  /\ Len(new[m].children) = Len(old[n].children) + 1) =>
                  /\ p'.nodeID = p.nodeID + 1
                  /\ new[m].children[Len(new[m].children)].ID = p'.nodeID
            /\ p'.nodeID = p.nodeID + 1 =>
                  \/ m = n + 1
                  \/ m = n /\ n >= 1
                       /\ Len(new[m].children) = Len(old[n].children) + 1
            /\ (n >= 1 /\ old[n].phase = "failed") =>
                  p'.nodeID = p.nodeID

\* in every returned tree the root has id 1 and the ids increase strictly
\* in pre-order, so they are distinct; no node has an id above the counter
TreeIds ==
    (Done /\ result.Success) =>
        /\ result.Tree[1].ID = 1
        /\ StrictlyIncreasing(PreOrder(result.Tree[1]))
        /\ \A k \in 1..Len(PreOrder(result.Tree[1])) :
              PreOrder(result.Tree[1])[k] <= p.nodeID

\* C19: the node-id counter starts at 0 for each parse and never decreases
\* during it, not even on backtracking; every node creation takes the next
\* value, a call's id is fixed before its first alternative and whichever
\* alternative succeeds, ids of abandoned attempts are not reused; every
\* returned tree has root id 1 and ids that increase strictly in pre-order.
NodeIdsMonotone == [][CounterStep]_vars /\ []TreeIds

\* a second parse on the same Parser that succeeded after abandoned
\* alternatives: the counter was reset, and ids are missing from the tree
NodeIdsWitness ==
    /\ Done /\ previous # <<>> /\ result.Success
    /\ result.Tree[1].ID = 1
    /\ p.nodeID > NodeCount(result.Tree[1])
    /\ NodeCount(result.Tree[1]) >= 3

\* one step of matchTerminal, taken with the top call at a terminal symbol
\* of its alternative. On a match the step adds to the children of the
\* alternative one terminal node with the next id, labelled with the text
\* of the token, moves the cursor by one and, when recording, appends the
\* one step of that node. On a mismatch it hands the alternative the error
\* with the symbol, the text of the token and its source position, and
\* leaves cursor, counter, step log and children as they are. Either way
\* the tokens and the calls below the top are untouched.
TerminalStep ==
    (AtTerminal /\ p' # p) =>
        LET f == Top(p)
            g == Top(p')
            symbol == NextSymbol(grammar, f)
            token == current(p)
            node == [ID |-> p.nodeID + 1, Label |-> token.Value,
                     Children |-> <<>>, IsTerminal |-> TRUE]
            step == [Action |-> "add",
                     Description |-> "Match terminal '" \o token.Value \o "'",
                     NodeID |-> p.nodeID + 1, ParentID |-> f.node.ID]
        IN /\ p'.tokens = p.tokens
           /\ p'.recordSteps = p.recordSteps
           /\ Len(p'.stack) = Len(p.stack)
           /\ SubSeq(p'.stack, 1, Len(p.stack) - 1)
                 = SubSeq(p.stack, 1, Len(p.stack) - 1)
           /\ IF Matched(symbol, token)
              THEN /\ g = [f EXCEPT !.children = Append(@, node), !.i = @ + 1]
                   /\ p'.nodeID = p.nodeID + 1
                   /\ p.pos < Len(p.tokens) /\ p'.pos = p.pos + 1
                   /\ p'.steps = IF p.recordSteps THEN Append(p.steps, step)
                                 ELSE p.steps
              ELSE /\ g = [f EXCEPT
                              !.phase = "failed",
                              !.err = "expected '" \o symbol \o "', got '"
                                        \o token.Value \o "' at position "
                                        \o ToString(token.Position)]
                   /\ p'.nodeID = p.nodeID
                   /\ p'.pos = p.pos
                   /\ p'.steps = p.steps

\* C20: terminal matching changes state only on a match. A match creates
\* exactly one terminal node labelled with the matched token's text,
\* advances the cursor by exactly one token and, when recording, appends
\* exactly one step; a mismatch returns an error naming the expected
\* symbol, the actual token text and its position and leaves the cursor,
\* the node-id counter and the step log unchanged.
TerminalMatchingEffect == [][TerminalStep]_vars

\* S -> A b | A on "a", recording: a was matched, then b was refused at the
\* end of the input
TerminalMatchingWitness ==
    /\ grammarText = BacktrackGrammar /\ input = <<"a">>
    /\ Running /\ p.recordSteps /\ Len(p.stack) = 1
    /\ Top(p).phase = "failed"
    /\ Top(p).err = "expected 'b', got '' at position 1"
    /\ p.pos = 1 /\ p.nodeID = 3 /\ Len(p.steps) = 3

\* the number of tokens below a node: its terminal leaves other than ε
RECURSIVE TokenLeaves(_)
TokenLeaves(node) ==
    IF node.IsTerminal THEN (IF node.Label = "ε" THEN 0 ELSE 1)
    ELSE SumSeq([k \in 1..Len(node.Children) |->
                   TokenLeaves(node.Children[k])])

\* the cursor on entry to the call of frame k: 0 for the start symbol, else
\* the cursor at which the calling alternative started plus the tokens its
\* children so far have consumed
EntryCursor(q, k) ==
    IF k = 1 THEN 0
    ELSE q.stack[k - 1].savedPos
           + SumSeq([c \in 1..Len(q.stack[k - 1].children) |->
                       TokenLeaves(q.stack[k - 1].children[c])])

\* the step taken when every alternative of the top call has failed: the
\* cursor is the one on entry and stays, and the caller (the enclosing
\* alternative, or Parse) gets the error for this non-terminal, this cursor
\* and the token at it, whatever the nested failures reported
ExhaustedEffect ==
    (Running /\ Exhausted(grammar, Top(p))) =>
        LET n == Len(p.stack)
            f == Top(p)
            err == "no matching production for " \o f.symbol
                     \o " at position " \o ToString(p.pos)
                     \o " (found '" \o p.tokens[p.pos + 1].Value \o "')"
        IN /\ p.pos = EntryCursor(p, n)
           /\ p'.pos = p.pos
           /\ Len(p'.stack) = n - 1
           /\ IF n = 1 THEN p'.ret = [kind |-> "err", tree |-> <<>>, err |-> err]
              ELSE /\ p'.stack[n - 1].phase = "failed"
                   /\ p'.stack[n - 1].err = err

\* at the head of the loop of a call the cursor is the one on entry; when
\* the expansion of the start symbol has failed, the ParseResult carries the
\* error for the start symbol at cursor 0 with the text of the first token
StartSymbolError ==
    /\ (Running /\ Top(p).phase = "try") =>
          p.pos = EntryCursor(p, Len(p.stack))
    /\ (Done /\ p.ret.kind = "err") =>
          /\ ~result.Success
          /\ result.Error =
                "no matching production for " \o grammar.StartSymbol
                  \o " at position 0 (found '" \o p.tokens[1].Value \o "')"

\* C21: when every alternative of a non-terminal has failed, the cursor is
\* the one on entry to the non-terminal and the error returned reports the
\* non-terminal, that cursor and the token at it, replacing the errors of
\* the nested failures; so a failed expansion of the start symbol gives the
\* ParseResult the error naming the start symbol, cursor 0 and the text of
\* the first token.
NoMatchReportsEntry == [][ExhaustedEffect]_vars /\ []StartSymbolError

\* "(3" with the default grammar: ) was missed at the end of the input, and
\* the error returned is the one of E at cursor 0
NoMatchWitness ==
    /\ Done /\ DefaultOn(InputOpenParen)
    /\ p.ret.kind = "err" /\ p.nodeID > 5
    /\ result.Error = "no matching production for E at position 0 (found '(')"

\* the results returned earlier are the same after the step
EarlierResultsKept ==
    /\ Len(previous') >= Len(previous)
    /\ \A k \in 1..Len(previous) : previous'[k] = previous[k]

\* a Parse that has returned on a Parser used before returned the result of
\* a newly constructed Parser; while a Parse runs, no result returned
\* earlier shares its storage with the step log the Parse writes to
FreshState ==
    /\ (Done /\ validation.Valid) =>
          LET alone == ParseAlone(grammar, input, p.recordSteps) IN
          ~alone.crashed /\ result = alone.result
    /\ pc = "running" =>
          /\ sharing = {}
          /\ p.nodeID >= 1 /\ p.pos <= Len(p.tokens) - 1

\* C22: each Parse call starts from fresh engine state. After any sequence
\* of earlier calls of Parse on the same Parser (successful or failed, with
\* or without recording) a further Parse returns exactly the result a new
\* Parser returns for the same grammar and arguments, and the results
\* returned earlier are not modified by the later call.
FreshPerParse == [][EarlierResultsKept]_vars /\ []FreshState

\* the third Parse on one Parser: a recorded success, a failure, then a
\* recorded success on another input
FreshWitness ==
    /\ Done /\ Len(previous) = 2
    /\ previous[1].Success /\ previous[1].Steps # <<>>
    /\ ~previous[2].Success
    /\ result.Success /\ Len(result.Steps) >= 2
    /\ result.Tokens # previous[1].Tokens

\* ------------------------------------------------------------------- C23

\* whether a line of the grammar text yields a production: it is not blank,
\* not a comment, has a separator and a head
LineCounts(rawLine) ==
    LET line == TrimSpace(rawLine) IN
    /\ line # <<>>
    /\ ~HasPrefix(line, <<"/", "/">>)
    /\ ~HasPrefix(line, <<"#">>)
    /\ Len(SplitSeparator(line)) = 2
    /\ TrimSpace(SplitSeparator(line)[1]) # <<>>

HeadOfLine(rawLine) ==
    Str(TrimSpace(SplitSeparator(TrimSpace(rawLine))[1]))

AlternativesOfLine(rawLine) ==
    BodiesOf(Split(SplitSeparator(TrimSpace(rawLine))[2], "|"), <<>>)

CountedLines(text) == SelectSeq(Split(text, "\n"), LineCounts)

\* the alternatives the lines of a head give, in line order and left to
\* right within a line
AlternativesInOrder(text, head) ==
    LET lines == CountedLines(text) IN
    Flatten([k \in 1..Len(lines) |->
               IF HeadOfLine(lines[k]) = head
               THEN AlternativesOfLine(lines[k]) ELSE <<>>])

CompiledInOrder ==
    pc # "idle" =>
        LET lines == CountedLines(grammarText) IN
        /\ grammar.StartSymbol =
               IF lines = <<>> THEN "" ELSE HeadOfLine(lines[1])
        /\ DOMAIN grammar.Productions =
               {HeadOfLine(lines[k]) : k \in 1..Len(lines)}
        /\ \A h \in DOMAIN grammar.Productions :
               grammar.Productions[h].Body =
                   AlternativesInOrder(grammarText, h)

\* a call of parseNonTerminal starts with the first alternative and goes
\* from an alternative to the one after it only
TriedInOrder ==
    \A k \in 1..Len(p'.stack) :
        IF k <= Len(p.stack) /\ p.stack[k].node.ID = p'.stack[k].node.ID
        THEN p'.stack[k].alt \in {p.stack[k].alt, p.stack[k].alt + 1}
        ELSE p'.stack[k].alt = 1

\* the symbols a call is expanding are those of the alternative it is at
ExpandsCurrentAlternative ==
    pc = "running" =>
        \A k \in 1..Len(p.stack) :
            LET f == p.stack[k] IN
            f.phase = "in" =>
                /\ f.alt \in 1..Len(Body(grammar, f))
                /\ f.i <= Len(Body(grammar, f)[f.alt])
                /\ Len(f.children) = f.i

\* C23: the compiled grammar has as start symbol the head of the first line
\* that yields a production, and as alternatives of a head those of all the
\* lines of that head, in line order and left to right within a line; the
\* engine tries the alternatives of a production in that order.
EncounterOrder ==
    [][TriedInOrder]_vars /\ [](CompiledInOrder /\ ExpandsCurrentAlternative)

\* the third alternative of S, which the second line of S gave, is the one
\* that parsed the input, after the two of the first line
EncounterOrderWitness ==
    /\ pc = "done"
    /\ grammarText = MultiLineGrammar
    /\ grammar.StartSymbol = "S"
    /\ grammar.Productions["S"].Body = <<<<"a", "b">>, <<"a">>, <<"3">>>>
    /\ result.Success
    /\ Len(result.Tree) = 1
    /\ Len(result.Tree[1].Children) = 1
    /\ result.Tree[1].Children[1].Label = "3"

\* ------------------------------------------------------------------- C24

\* the symbols of the grammar: heads, start symbol and body symbols
GrammarSymbols(g) ==
    g.NonTerminals \cup DOMAIN g.Productions \cup {g.StartSymbol}
        \cup BodySymbols(g)

UndefinedFailures(g) == {UndefinedError(s) : s \in GrammarSymbols(g)}

HeadsHaveEntries ==
    pc # "idle" =>
        /\ grammar.NonTerminals = DOMAIN grammar.Productions
        /\ \A s \in BodySymbols(grammar) :
               s \in grammar.NonTerminals => s \in DOMAIN grammar.Productions

\* no call of parseNonTerminal is about to be made, and none has been
\* made, for a symbol without a production entry
NeverUndefined ==
    /\ pc = "running" =>
          /\ \A k \in 1..Len(p.stack) :
                 /\ p.stack[k].symbol \in DOMAIN grammar.Productions
                 /\ p.stack[k].err \notin UndefinedFailures(grammar)
                 /\ LET f == p.stack[k] IN
                    (f.phase = "in" /\ f.alt <= Len(Body(grammar, f))
                       /\ f.i < Len(Body(grammar, f)[f.alt])
                       /\ NextSymbol(grammar, f) \notin {"ε", "epsilon"}
                       /\ ~isTerminal(grammar, NextSymbol(grammar, f)))
                      => NextSymbol(grammar, f) \in DOMAIN grammar.Productions
          /\ p.ret.err \notin UndefinedFailures(grammar)
    /\ pc = "done" => result.Error \notin UndefinedFailures(grammar)

\* C24: in the compiled grammar the non-terminal set is the set of keys of
\* productions, every non-terminal a body refers to has a production entry,
\* and no parse over a compiled grammar reaches the failure "undefined
\* non-terminal".
ProductionsCoverNonTerminals == HeadsHaveEntries /\ NeverUndefined

\* the engine is inside the call for X, a head whose only line has no
\* alternative and which the body of S refers to
ProductionsCoverWitness ==
    /\ grammarText = HeadWithoutBodyGrammar
    /\ pc = "running"
    /\ Len(p.stack) = 2
    /\ Top(p).symbol = "X"
    /\ grammar.Productions["X"].Body = <<>>
    /\ "X" \in BodySymbols(grammar)

\* ------------------------------------------------------------------- C25

\* the offset just after the text of token t
EndOf(t) == t.Position + Len(t.Value)

\* C25: in every tokenize result the positions are strictly increasing,
\* every token before the EOF token has a text that is not empty and is the
\* part of the input that starts at its position, no token reaches into the
\* next one, every offset of the input outside the tokens holds whitespace,
\* and the position of the EOF token is the length of the input.
TokenPositions ==
    pc = "done" =>
        LET n == Len(tokens) IN
        /\ \A k \in 1..(n - 1) :
              /\ tokens[k].Position < tokens[k + 1].Position
              /\ tokens[k].Value # ""
              /\ EndOf(tokens[k]) <= Len(input)
              /\ tokens[k].Value =
                    Str(Slice(input, tokens[k].Position, EndOf(tokens[k])))
              /\ EndOf(tokens[k]) <= tokens[k + 1].Position
        /\ \A i \in 0..(Len(input) - 1) :
              (\A k \in 1..(n - 1) : i \notin Covered(tokens[k]))
                  => IsSpace(input[i + 1])
        /\ tokens[n].Position = Len(input)

\* ------------------------------------------------------------------- C26

\* buildStepDescription on the characters of the label
DescriptionText(label, terminal) ==
    IF terminal
    THEN IF label = <<"ε">>
         THEN <<"M", "a", "t", "c", "h", " ", "e", "p", "s", "i", "l", "o", "n", " ">>
              \o <<"(", "e", "m", "p", "t", "y", " ", "s", "t", "r", "i", "n", "g", ")">>
         ELSE <<"M", "a", "t", "c", "h", " ", "t", "e", "r", "m", "i", "n", "a", "l", " ", "'">>
              \o label \o <<"'">>
    ELSE <<"E", "x", "p", "a", "n", "d", " ">>
         \o <<"n", "o", "n", "-", "t", "e", "r", "m", "i", "n", "a", "l", " ", "<">>
         \o label \o <<">">>

\* the parts of a text
Parts(cs) == {SubSeq(cs, i, j) : i \in 1..Len(cs), j \in 1..Len(cs)}

\* the characters of a step description: the description of a label that is
\* a part of the grammar text or of the input, or the epsilon marker
DescriptionChars(description) ==
    CHOOSE d \in {DescriptionText(l, t) :
                    l \in Parts(grammarText) \cup Parts(input) \cup {<<"ε">>},
                    t \in BOOLEAN} :
        Str(d) = description

\* String.prototype.includes
Includes(cs, sub) ==
    \E i \in 0..(Len(cs) - Len(sub)) : SubSeq(cs, i + 1, i + Len(sub)) = sub

\* the group of the leftmost match of the regular expressions /'([^']+)'/
\* and /<([^>]+)>/ of renderPartialTree: the text between open and the next
\* close, which may not follow open at once; <<>> when nothing matches
Group(cs, open, close) ==
    LET ends(i) == {j \in (i + 2)..Len(cs) :
                      /\ cs[j] = close
                      /\ \A m \in (i + 1)..(j - 1) : cs[m] # close}
        starts == {i \in 1..Len(cs) : cs[i] = open /\ ends(i) # {}}
    IN IF starts = {} THEN <<>>
       ELSE LET i == CHOOSE a \in starts : \A b \in starts : a <= b
                j == CHOOSE a \in ends(i) : TRUE
            IN SubSeq(cs, i + 1, j - 1)

Terminal == <<"t", "e", "r", "m", "i", "n", "a", "l">>

Epsilon == <<"e", "p", "s", "i", "l", "o", "n">>

\* renderPartialTree, lines 349-351: the label of the node of a step
RenderedLabel(description) ==
    LET cs == DescriptionChars(description) IN
    IF Includes(cs, Terminal)
    THEN IF Group(cs, "'", "'") # <<>>
         THEN Str(Group(cs, "'", "'")) ELSE "ε"
    ELSE IF Group(cs, "<", ">") # <<>>
         THEN Str(Group(cs, "<", ">")) ELSE description

\* renderPartialTree, line 352: the terminal flag of the node of a step
RenderedIsTerminal(description) ==
    LET cs == DescriptionChars(description) IN
    Includes(cs, Terminal) \/ Includes(cs, Epsilon)

\* the nodes of a tree: id, label and terminal flag of each
RECURSIVE TreeNodes(_)
TreeNodes(node) ==
    {[ID |-> node.ID, Label |-> node.Label, IsTerminal |-> node.IsTerminal]}
        \cup UNION {TreeNodes(node.Children[k]) :
                       k \in 1..Len(node.Children)}

\* C26: after a successful parse that recorded its steps, the node the
\* renderer makes for a step has the label and the terminal flag of the node
\* of result.tree with the id of the step.
ReplayKeepsLabels ==
    (Done /\ result.Success /\ p.recordSteps) =>
        \A k \in 1..Len(result.Steps) :
            \A node \in TreeNodes(result.Tree[1]) :
                node.ID = result.Steps[k].NodeID =>
                    /\ RenderedLabel(result.Steps[k].Description) = node.Label
                    /\ RenderedIsTerminal(result.Steps[k].Description)
                          = node.IsTerminal

\* ------------------------------------------------------------------- C27

\* the labels of the terminal leaves of a tree other than ε leaves, left to
\* right
RECURSIVE Yield(_)
Yield(node) ==
    IF node.IsTerminal
    THEN IF node.Label = "ε" THEN <<>> ELSE <<node.Label>>
    ELSE Flatten([k \in 1..Len(node.Children) |-> Yield(node.Children[k])])

\* a node and the nodes below it
RECURSIVE SubTrees(_)
SubTrees(node) ==
    {node} \cup UNION {SubTrees(node.Children[k]) :
                         k \in 1..Len(node.Children)}

\* whether the node is what parseAlternative makes for the symbol: an ε
\* leaf for an epsilon marker, a leaf with the text of a token the symbol
\* matches for a terminal, a node with the name of the symbol otherwise
ChildOfSymbol(symbol, child) ==
    IF symbol \in {"ε", "epsilon"}
    THEN child.IsTerminal /\ child.Label = "ε" /\ child.Children = <<>>
    ELSE IF isTerminal(grammar, symbol)
    THEN /\ child.IsTerminal /\ child.Children = <<>>
         /\ \E k \in 1..(Len(result.Tokens) - 1) :
               /\ result.Tokens[k].Value = child.Label
               /\ Matched(symbol, result.Tokens[k])
    ELSE ~child.IsTerminal /\ child.Label = symbol

FollowsAlternative(node) ==
    IF node.IsTerminal THEN node.Children = <<>>
    ELSE /\ node.Label \in DOMAIN grammar.Productions
         /\ Len(node.Children) >= 1
         /\ \E alt \in Range(grammar.Productions[node.Label].Body) :
               /\ Len(alt) = Len(node.Children)
               /\ \A k \in 1..Len(alt) :
                     ChildOfSymbol(alt[k], node.Children[k])

\* C27: in the tree of a successful parse the labels of the terminal leaves
\* other than ε leaves are, left to right, the texts of the tokens before
\* EOF, each once; the children of every non-terminal node are those of one
\* alternative of its production, symbol by symbol, so it has at least one
\* child; a terminal node has none.
TreeYield ==
    (Done /\ result.Success) =>
        /\ Yield(result.Tree[1]) =
              [k \in 1..(Len(result.Tokens) - 1) |-> result.Tokens[k].Value]
        /\ \A node \in SubTrees(result.Tree[1]) : FollowsAlternative(node)

\* the tree of 3 + 5 * 2 under the default grammar, with its ε leaves
TreeYieldWitness ==
    /\ Done /\ result.Success
    /\ grammarText = DefaultArithmeticGrammar
    /\ input = InputSum
    /\ Yield(result.Tree[1]) = <<"3", "+", "5", "*", "2">>
    /\ \E node \in SubTrees(result.Tree[1]) :
          node.IsTerminal /\ node.Label = "ε"

\* ------------------------------------------------------------------- C28

\* the cursor is on a token, at most on the EOF token, which is the last
CursorInBounds ==
    (pc # "idle" /\ p.tokens # <<>>) =>
        /\ p.pos \in 0..(Len(p.tokens) - 1)
        /\ p.tokens[Len(p.tokens)].Type = TOKEN_EOF
        /\ \A k \in 1..Len(p.stack) :
              p.stack[k].savedPos \in 0..p.pos

\* one step and the cursor: it stays, or goes one token on at the match of
\* a terminal symbol with a token that is not EOF, or goes back to the value
\* saved before the alternative that has failed
CursorStep ==
    \/ p'.pos = p.pos
    \/ /\ pc = "running" /\ p.stack # <<>>
       /\ Top(p).phase = "in"
       /\ p'.pos = p.pos + 1
       /\ current(p).Type # TOKEN_EOF
       /\ isTerminal(grammar, NextSymbol(grammar, Top(p)))
       /\ Matched(NextSymbol(grammar, Top(p)), current(p))
    \/ /\ pc = "running" /\ p.stack # <<>>
       /\ Top(p).phase = "failed"
       /\ p'.pos = Top(p).savedPos
       /\ p'.pos < p.pos

\* C28: during and after a parse the cursor is between 0 and the index of
\* the EOF token; no terminal symbol matches the EOF token, so the cursor
\* never passes it; the cursor changes only by one token forward at a
\* terminal match or back to a saved value at a backtrack.
CursorBounds == [][CursorStep]_vars /\ []CursorInBounds

\* an alternative has failed on the EOF token after it had consumed tokens:
\* the cursor is on EOF and about to go back
CursorBoundsWitness ==
    /\ pc = "running" /\ p.stack # <<>>
    /\ p.pos = Len(p.tokens) - 1
    /\ current(p).Type = TOKEN_EOF
    /\ Top(p).phase = "failed"
    /\ Top(p).savedPos < p.pos

\* ------------------------------------------------------------------- C29

\* no symbol of the compiled grammar is both a terminal and a non-terminal
ExclusiveClasses ==
    pc # "idle" =>
        \A symbol \in GrammarSymbols(grammar) :
            ~(IsTerminal(grammar, symbol) /\ IsNonTerminal(grammar, symbol))

\* the symbol a running alternative is about to expand is not taken for a
\* terminal or an epsilon marker when it is the head of a production
HeadsAreExpanded ==
    pc = "running" =>
        \A k \in 1..Len(p.stack) :
            LET f == p.stack[k] IN
            (/\ f.phase = "in"
             /\ f.alt <= Len(Body(grammar, f))
             /\ f.i < Len(Body(grammar, f)[f.alt])
             /\ NextSymbol(grammar, f) \in DOMAIN grammar.Productions)
                => /\ NextSymbol(grammar, f) \notin {"ε", "epsilon"}
                   /\ ~isTerminal(grammar, NextSymbol(grammar, f))

\* C29: in a compiled grammar no symbol is classified both as terminal and
\* as non-terminal, and the engine expands every body symbol that is the
\* head of a production through that production, whatever its name.
ClassificationExclusive == ExclusiveClasses /\ HeadsAreExpanded

\* ------------------------------------------------------------------- C30

\* C30: whatever the user does and whenever the timers fire, at most one
\* interval timer is live, a timer is live only while isPlaying is true, the
\* step index is between 0 and the number of steps, and every live timer is
\* the one playInterval holds, which a Pause clears.
PlayerTimers ==
    /\ Cardinality(player.timers) <= 1
    /\ player.timers # {} => player.isPlaying
    /\ player.currentStepIndex \in 0..player.currentSteps
    /\ player.timers \subseteq {player.playInterval}

====
